---- MODULE Spec2Model ----
(***************************************************************************)
(* A model of the document pipeline of the Appendix Generator:             *)
(*   - utils/pdf_handler.py: get_pdf_info, extract_text_from_pdf,          *)
(*     truncate_content_smart, extract_with_info;                          *)
(*   - utils/export.py: parse_markdown_content, parse_table,               *)
(*     parse_inline_formatting.                                            *)
(* Text is a sequence of one-character strings, so that slicing, find and  *)
(* rfind are computed position by position as Python computes them.        *)
(* Positions returned by PyFind and PyRFind are 0-based, as in Python.     *)
(***************************************************************************)
EXTENDS Integers, Sequences, FiniteSets, TLC

VARIABLES
    content,      \* truncation: the text handed to truncate_content_smart
    max_chars,    \* truncation: the character budget of the call
    calls,        \* truncation: the calls made so far, each with its result
    pdf_pages,    \* the PDF document: the text of each page (<<>>: no text)
    pdf_fault,    \* the PDF document: where reading it raises, if anywhere
    stream_pos,   \* the uploaded file handle: its current position
    pdf_calls,    \* the pdf_handler calls made on the handle, with results
    md_content,   \* export: the Markdown text handed to parse_markdown_content
    md_pc,        \* export: "start", "parsed" or "tables"
    md_elements,  \* export: the elements parse_markdown_content returned
    md_tables,    \* export: parse_table of each table element, by position
    md_lines,     \* export: lines, the local of parse_markdown_content
    md_i,         \* export: i, the loop index of parse_markdown_content
    inline_text,  \* export: the text handed to parse_inline_formatting
    inline_calls, \* export: the calls of parse_inline_formatting, with results
    rl_calls,     \* export: the calls of convert_inline_to_reportlab, with results
    export_title, \* export: the title handed to export_to_docx / export_to_pdf
    today,        \* export: the date datetime.now() gives, [year, month, day]
    docx_doc,     \* export: the items export_to_docx put in the document
    pdf_story,    \* export: the flowables export_to_pdf put in the story
    session,      \* app: st.session_state, the fields the workflow uses
    rendered      \* app: what the last run of the script rendered

vars == << content, max_chars, calls, pdf_pages, pdf_fault, stream_pos, pdf_calls,
           md_content, md_pc, md_elements, md_tables, md_lines, md_i,
           inline_text, inline_calls,
           rl_calls, export_title, today, docx_doc, pdf_story,
           session, rendered >>

truncVars == << content, max_chars, calls >>
pdfVars == << pdf_pages, pdf_fault, stream_pos, pdf_calls >>
mdVars == << md_content, md_pc, md_elements, md_tables, md_lines, md_i >>
inlineVars == << inline_text, inline_calls, rl_calls >>
renderVars == << export_title, today, docx_doc, pdf_story >>
sessionVars == << session, rendered >>

(***************************************************************************)
(* Bounds of the model.                                                    *)
(***************************************************************************)
\* Texts are concatenations of at most MaxPieces pieces.
MaxPieces == 3
\* Budgets range over 0..MaxBudget.
MaxBudget == 140
\* PDFs of at most MaxShortPages pages take any page texts; longer ones, of
\* at most MaxPages pages, one text on the sampled pages and one after them.
MaxShortPages == 2
MaxPages == 11
\* Positions of the file handle range over 0..MaxPos.
MaxPos == 1
MaxMdLines == 3     \* lines of a Markdown text
MaxInlinePieces == 3   \* pieces of a text handed to parse_inline_formatting
MaxExportLines == 2    \* lines of a Markdown text handed to an export
MaxTrimBudget == 52     \* largest budget of the trimming runs
MaxLoopLines == 2      \* lines of a text parsed one loop iteration at a time

(***************************************************************************)
(* Python's string primitives.                                             *)
(***************************************************************************)
Min(a, b) == IF a <= b THEN a ELSE b
Max(a, b) == IF a >= b THEN a ELSE b

\* s[:n] for n >= 0
PyPrefix(s, n) == SubSeq(s, 1, Min(n, Len(s)))

\* s[n:] for n >= 0
PyFrom(s, n) == SubSeq(s, Min(n, Len(s)) + 1, Len(s))

\* s[-n:] for n >= 0. Python evaluates -0 to 0, so s[-0:] is s[0:], all of s.
PyLast(s, n) == IF n = 0 THEN s ELSE SubSeq(s, Max(Len(s) - n, 0) + 1, Len(s))

\* sub occurs in s at 0-based position i
OccursAt(s, sub, i) ==
    /\ i >= 0
    /\ i + Len(sub) <= Len(s)
    /\ \A k \in 1..Len(sub) : s[i + k] = sub[k]

Occurrences(s, sub) == { i \in 0..(Len(s) - Len(sub)) : OccursAt(s, sub, i) }

\* s.find(sub): the lowest position of sub in s, or -1
PyFind(s, sub) ==
    LET occ == Occurrences(s, sub)
    IN  IF occ = {} THEN -1 ELSE CHOOSE i \in occ : \A j \in occ : i <= j

\* s.rfind(sub): the highest position of sub in s, or -1
PyRFind(s, sub) ==
    LET occ == Occurrences(s, sub)
    IN  IF occ = {} THEN -1 ELSE CHOOSE i \in occ : \A j \in occ : i >= j

(***************************************************************************)
(* truncate_content_smart                                                  *)
(***************************************************************************)
\* The page marker literal "[Page " searched for at pdf_handler.py:148, 155.
PAGE_TAG == << "[", "P", "a", "g", "e", " " >>

\* The truncation marker of pdf_handler.py:162.
MARKER ==
    << "\n", "\n", "[", ".", ".", ".", " ", "C", "O", "N", "T", "E",
       "N", "T", " ", "T", "R", "U", "N", "C", "A", "T", "E", "D",
       " ", "F", "O", "R", " ", "L", "E", "N", "G", "T", "H", " ",
       "-", " ", "M", "I", "D", "D", "L", "E", " ", "S", "E", "C",
       "T", "I", "O", "N", " ", "O", "M", "I", "T", "T", "E", "D",
       " ", ".", ".", ".", "]", "\n", "\n" >>

\* int(max_chars * 0.6) and int(max_chars * 0.4), for max_chars >= 0. The
\* float products truncate to these integers for every budget up to 3000.
BeginningChars(mc) == (6 * mc) \div 10
EndChars(mc) == (4 * mc) \div 10

\* Mutant of Beginning: a marker at exactly four fifths of the window trims.
MutBeginningAtFourFifths(text, mc) ==
    LET beginning_chars == (6 * mc) \div 10
        beginning == PyPrefix(text, beginning_chars)
        last_page_break == PyRFind(beginning, PAGE_TAG)
    IN  IF 10 * last_page_break >= 8 * beginning_chars
        THEN PyPrefix(beginning, Max(last_page_break, 0))
        ELSE beginning

\* pdf_handler.py:146-150. last_page_break > beginning_chars * 0.8 is
\* compared in tenths.
Beginning(text, mc) ==
    LET beginning_chars == BeginningChars(mc)
        beginning == PyPrefix(text, beginning_chars)
        last_page_break == PyRFind(beginning, PAGE_TAG)
    IN  IF 10 * last_page_break > 8 * beginning_chars
        THEN PyPrefix(beginning, last_page_break)
        ELSE beginning

\* Mutant of Ending: a marker at exactly one fifth of the window trims.
MutEndingAtOneFifth(text, mc) ==
    LET end_chars == (4 * mc) \div 10
        ending == PyLast(text, end_chars)
        first_page_break == PyFind(ending, PAGE_TAG)
    IN  IF first_page_break # -1 /\ 10 * first_page_break <= 2 * end_chars
        THEN PyFrom(ending, first_page_break)
        ELSE ending

\* pdf_handler.py:153-157. first_page_break < end_chars * 0.2 is compared
\* in tenths.
Ending(text, mc) ==
    LET end_chars == EndChars(mc)
        ending == PyLast(text, end_chars)
        first_page_break == PyFind(ending, PAGE_TAG)
    IN  IF first_page_break # -1 /\ 10 * first_page_break < 2 * end_chars
        THEN PyFrom(ending, first_page_break)
        ELSE ending

\* truncate_content_smart with the early return taken for len < max_chars only.
MutTruncateStrict(text, mc) ==
    IF Len(text) < mc
    THEN [ text |-> text,
           was_truncated |-> FALSE,
           original_chars |-> Len(text),
           final_chars |-> Len(text) ]
    ELSE LET truncated == Beginning(text, mc) \o MARKER \o Ending(text, mc)
         IN  [ text |-> truncated,
               was_truncated |-> TRUE,
               original_chars |-> Len(text),
               final_chars |-> Len(truncated) ]

\* truncate_content_smart with the marker appended after the ending.
MutTruncateMarkerLast(text, mc) ==
    IF Len(text) <= mc
    THEN [ text |-> text,
           was_truncated |-> FALSE,
           original_chars |-> Len(text),
           final_chars |-> Len(text) ]
    ELSE LET truncated == Beginning(text, mc) \o Ending(text, mc) \o MARKER
         IN  [ text |-> truncated,
               was_truncated |-> TRUE,
               original_chars |-> Len(text),
               final_chars |-> Len(truncated) ]

\* truncate_content_smart(text, mc): the returned text and truncation_info.
\* kept_percentage, a rounded float the page only displays, is left out.
TruncateContentSmart(text, mc) ==
    IF Len(text) <= mc
    THEN [ text |-> text,
           was_truncated |-> FALSE,
           original_chars |-> Len(text),
           final_chars |-> Len(text) ]
    ELSE LET truncated == Beginning(text, mc) \o MARKER \o Ending(text, mc)
         IN  [ text |-> truncated,
               was_truncated |-> TRUE,
               original_chars |-> Len(text),
               final_chars |-> Len(truncated) ]

(***************************************************************************)
(* The truncation specification: a caller truncates a text, and may hand   *)
(* the result back with the same budget.                                   *)
(***************************************************************************)
\* The pieces texts are built from: two letters, a line break, the page tag
\* and the truncation marker itself (a book may quote anything).
Pieces == { << "a" >>, << "b" >>, << "\n" >>, PAGE_TAG, MARKER }

RECURSIVE TextsOf(_)
TextsOf(n) ==
    IF n = 0 THEN { << >> }
    ELSE LET shorter == TextsOf(n - 1)
         IN  shorter \cup { t \o p : t \in shorter, p \in Pieces }

Texts == TextsOf(MaxPieces)
Budgets == 0..MaxBudget

\* No Markdown is being parsed.
MdIdle ==
    /\ md_content = << >>
    /\ md_pc = "start"
    /\ md_elements = << >>
    /\ md_tables = << >>
    /\ md_lines = << >>
    /\ md_i = 0

\* No text is being split into formatted spans.
InlineIdle ==
    /\ inline_text = << >>
    /\ inline_calls = << >>
    /\ rl_calls = << >>

\* No document is being rendered.
RenderIdle ==
    /\ export_title = << >>
    /\ today = [year |-> 0, month |-> 0, day |-> 0]
    /\ docx_doc = << >>
    /\ pdf_story = << >>

\* The application has not been opened: the defaults of its session state,
\* and nothing rendered.
SessionIdle ==
    /\ session = [api_key_valid |-> FALSE, demo_mode |-> FALSE,
                  book_content |-> "None", extraction_info |-> "None",
                  planning_data |-> "None", generated_appendices |-> {}]
    /\ rendered = [current_step |-> 0, api_key_valid |-> FALSE]

\* Nothing is being exported.
ExportIdle == MdIdle /\ InlineIdle /\ RenderIdle

\* No PDF has been uploaded.
PdfIdle ==
    /\ pdf_pages = << >>
    /\ pdf_fault = [ step |-> "none", page |-> 0, msg |-> {} ]
    /\ stream_pos = 0
    /\ pdf_calls = << >>

TruncInit ==
    /\ content \in Texts
    /\ max_chars \in Budgets
    /\ calls = << >>
    /\ PdfIdle
    /\ ExportIdle
    /\ SessionIdle

\* One call as the model records it: its arguments and what it returned.
Call(text, mc) ==
    [ input |-> text, budget |-> mc, out |-> TruncateContentSmart(text, mc) ]

\* A call of truncate_content_smart(content, max_chars).
Truncate ==
    /\ Len(calls) = 0
    /\ calls' = << Call(content, max_chars) >>
    /\ UNCHANGED << content, max_chars >>
    /\ UNCHANGED << pdfVars, mdVars, inlineVars, renderVars, sessionVars >>

\* The caller hands the returned text back, with the same budget.
TruncateAgain ==
    /\ Len(calls) = 1
    /\ content' = calls[1].out.text
    /\ calls' = Append(calls, Call(calls[1].out.text, max_chars))
    /\ UNCHANGED max_chars
    /\ UNCHANGED << pdfVars, mdVars, inlineVars, renderVars, sessionVars >>

TruncNext == Truncate \/ TruncateAgain

TruncSpec == TruncInit /\ [][TruncNext]_vars

(***************************************************************************)
(* The PDF document and the file handle.                                   *)
(*                                                                         *)
(* pdfplumber is outside the repository. The model keeps what the code     *)
(* reads from it: the number of pages, the text page.extract_text() gives  *)
(* for each page (<< >> stands for None and for the empty string, which    *)
(* the code treats alike), and the place where reading raises, with the    *)
(* keywords the exception's lower-cased message contains.                  *)
(***************************************************************************)
\* The texts a page may hold.
PageTexts ==
    { << >>, << " " >>, << "a" >>, << "a", " " >>, << " ", "a" >>,
      << "a", " ", "b" >> }

\* The number of pages get_pdf_info samples at most (pdf_handler.py:90).
SAMPLE_PAGES == 10

\* The default budget of truncate_content_smart (pdf_handler.py:114).
DEFAULT_MAX_CHARS == 900000

RECURSIVE DocsOf(_)
DocsOf(n) ==
    IF n = 0 THEN { << >> }
    ELSE LET shorter == DocsOf(n - 1)
         IN  shorter \cup { Append(d, t) : d \in { x \in shorter : Len(x) = n - 1 },
                                           t \in PageTexts }

LongDocs ==
    { [ i \in 1..n |-> IF i <= SAMPLE_PAGES THEN t1 ELSE t2 ] :
          n \in 1..MaxPages, t1 \in PageTexts, t2 \in PageTexts }

Docs == DocsOf(MaxShortPages) \cup LongDocs

\* Keywords an exception message may contain, of those the code looks for.
ErrMsgs ==
    { {}, { "password" }, { "encrypted" }, { "corrupt" }, { "damaged" },
      { "password", "corrupt" } }

NoFault == [ step |-> "none", page |-> 0, msg |-> {} ]

\* Where reading a document of n pages may raise: nowhere, at
\* pdfplumber.open (or the first use of pdf.pages), or at the extract_text
\* of page k.
FaultsOf(n) ==
    { NoFault }
        \cup { [ step |-> "open", page |-> 0, msg |-> m ] : m \in ErrMsgs }
        \cup { [ step |-> "page", page |-> k, msg |-> m ] : k \in 1..n, m \in ErrMsgs }

StreamPositions == 0..MaxPos

\* str.split(): the whitespace characters among those the model uses.
IsSpace(c) == c \in { " ", "\n" }

\* len(s.split()): the number of maximal runs of non-whitespace characters.
PyWordCount(s) ==
    Cardinality({ i \in 1..Len(s) :
                      /\ ~IsSpace(s[i])
                      /\ (i = 1 \/ IsSpace(s[i - 1])) })

\* The concatenation of the texts of pages 1..n, as the loop of
\* pdf_handler.py:92-96 builds it: sample_text += text, nothing in between.
RECURSIVE ConcatPages(_, _)
ConcatPages(pages, n) ==
    IF n = 0 THEN << >> ELSE ConcatPages(pages, n - 1) \o pages[n]

(***************************************************************************)
(* get_pdf_info                                                            *)
(***************************************************************************)
\* info["error"]: << >> while the dictionary has no such key, << msg >> once
\* the except clause has stored the message of the exception it caught.
ABSENT == << >>

\* The dictionary of pdf_handler.py:76-81.
InfoDefaults ==
    [ pages |-> 0, has_text |-> FALSE, estimated_words |-> 0,
      estimated_chars |-> 0, error |-> ABSENT ]

\* int(x / sample_pages * pages) of pdf_handler.py:99-104. The float result
\* equals this quotient for every x <= 60 and pages <= 14.
Extrapolate(x, sample_pages, pages) == (x * pages) \div sample_pages

\* The try block with has_text set for every PDF that has pages, whether or
\* not the sample holds any text.
MutTryHasTextFromPages(pages, fault) ==
    IF fault.step = "open"
    THEN [ raised |-> TRUE, msg |-> fault.msg, info |-> InfoDefaults ]
    ELSE LET n == Len(pages)
             sample_pages == Min(SAMPLE_PAGES, n)
             counted == [ InfoDefaults EXCEPT !.pages = n ]
             sample_text == ConcatPages(pages, sample_pages)
         IN  IF fault.step = "page" /\ fault.page <= sample_pages
             THEN [ raised |-> TRUE, msg |-> fault.msg, info |-> counted ]
             ELSE IF n > 0
             THEN [ raised |-> FALSE, msg |-> {},
                    info |-> [ counted EXCEPT
                        !.has_text = TRUE,
                        !.estimated_chars =
                            Extrapolate(Len(sample_text), sample_pages, n),
                        !.estimated_words =
                            Extrapolate(PyWordCount(sample_text), sample_pages, n) ] ]
             ELSE [ raised |-> FALSE, msg |-> {}, info |-> counted ]

\* The body of the try block, pdf_handler.py:84-104: the dictionary as it
\* stands when the block ends, and the exception that ended it, if any.
GetPdfInfoTry(pages, fault) ==
    IF fault.step = "open"
    THEN [ raised |-> TRUE, msg |-> fault.msg, info |-> InfoDefaults ]
    ELSE LET n == Len(pages)
             sample_pages == Min(SAMPLE_PAGES, n)
             counted == [ InfoDefaults EXCEPT !.pages = n ]
             sample_text == ConcatPages(pages, sample_pages)
         IN  IF fault.step = "page" /\ fault.page <= sample_pages
             THEN [ raised |-> TRUE, msg |-> fault.msg, info |-> counted ]
             ELSE IF sample_text # << >>
             THEN [ raised |-> FALSE, msg |-> {},
                    info |-> [ counted EXCEPT
                        !.has_text = TRUE,
                        !.estimated_chars =
                            Extrapolate(Len(sample_text), sample_pages, n),
                        !.estimated_words =
                            Extrapolate(PyWordCount(sample_text), sample_pages, n) ] ]
             ELSE [ raised |-> FALSE, msg |-> {}, info |-> counted ]

\* get_pdf_info without the except clause: the exception leaves the function.
MutGetPdfInfoNoCatch(pages, fault) ==
    LET t == GetPdfInfoTry(pages, fault)
    IN  IF t.raised
        THEN [ outcome |-> "raised", info |-> t.info ]
        ELSE [ outcome |-> "returned", info |-> t.info ]

\* get_pdf_info, pdf_handler.py:83-111: the except clause stores str(e) and
\* the function returns the dictionary.
GetPdfInfoResult(pages, fault) ==
    LET t == GetPdfInfoTry(pages, fault)
    IN  IF t.raised
        THEN [ outcome |-> "returned", info |-> [ t.info EXCEPT !.error = << t.msg >> ] ]
        ELSE [ outcome |-> "returned", info |-> t.info ]

\* get_pdf_info without its last seek: the handle stays where the reads left it.
MutNoFinalSeek(left_at) == left_at

\* The position of the handle when get_pdf_info ends, given where the reads
\* inside the try block left it: pdf_file.seek(0), pdf_handler.py:109.
PosAfterGetPdfInfo(left_at) == 0

(***************************************************************************)
(* extract_text_from_pdf                                                   *)
(***************************************************************************)
Digits == << "0", "1", "2", "3", "4", "5", "6", "7", "8", "9" >>

\* str(n) for n >= 0
RECURSIVE Decimal(_)
Decimal(n) ==
    IF n < 10 THEN << Digits[n + 1] >>
    ELSE Decimal(n \div 10) \o << Digits[(n % 10) + 1] >>

\* The page block tagged with the 0-based position of the page.
MutPageBlockZeroBased(k, page_text) ==
    << "[", "P", "a", "g", "e", " " >> \o Decimal(k - 1) \o << "]", "\n" >> \o page_text

\* f"[Page {i+1}]\n{page_text}" for the page at 1-based position k
PageBlock(k, page_text) ==
    << "[", "P", "a", "g", "e", " " >> \o Decimal(k) \o << "]", "\n" >> \o page_text

\* The blocks of pages 1..n that yield text, in page order
\* (pdf_handler.py:49-52).
RECURSIVE PageBlocks(_, _)
PageBlocks(pages, n) ==
    IF n = 0 THEN << >>
    ELSE IF pages[n] # << >>
         THEN Append(PageBlocks(pages, n - 1), PageBlock(n, pages[n]))
         ELSE PageBlocks(pages, n - 1)

\* "\n\n".join(blocks)
RECURSIVE JoinBlankLine(_)
JoinBlankLine(blocks) ==
    IF Len(blocks) = 0 THEN << >>
    ELSE IF Len(blocks) = 1 THEN blocks[1]
    ELSE JoinBlankLine(SubSeq(blocks, 1, Len(blocks) - 1))
             \o << "\n", "\n" >> \o blocks[Len(blocks)]

\* The classification with the corrupt/damaged test made first.
MutClassifyCorruptFirst(msg) ==
    IF "corrupt" \in msg \/ "damaged" \in msg THEN "Corrupted"
    ELSE IF "password" \in msg \/ "encrypted" \in msg THEN "PasswordProtected"
    ELSE "Unreadable"

\* The exception raised for a caught one, pdf_handler.py:55-61.
ClassifyError(msg) ==
    IF "password" \in msg \/ "encrypted" \in msg THEN "PasswordProtected"
    ELSE IF "corrupt" \in msg \/ "damaged" \in msg THEN "Corrupted"
    ELSE "Unreadable"

\* extract_text_from_pdf returning what it collected when a page raises.
MutExtractPartial(pages, fault) ==
    IF fault.step = "open"
    THEN [ outcome |-> "raised", error |-> ClassifyError(fault.msg) ]
    ELSE IF fault.step = "page"
    THEN [ outcome |-> "returned",
           text |-> JoinBlankLine(PageBlocks(pages, fault.page - 1)) ]
    ELSE [ outcome |-> "returned",
           text |-> JoinBlankLine(PageBlocks(pages, Len(pages))) ]

\* extract_text_from_pdf, pdf_handler.py:43-63.
ExtractTextFromPdfResult(pages, fault) ==
    IF fault.step # "none"
    THEN [ outcome |-> "raised", error |-> ClassifyError(fault.msg) ]
    ELSE [ outcome |-> "returned",
           text |-> JoinBlankLine(PageBlocks(pages, Len(pages))) ]

(***************************************************************************)
(* extract_with_info                                                       *)
(***************************************************************************)
\* extract_with_info, pdf_handler.py:191-209.
ExtractWithInfoResult(pages, fault) ==
    LET pdf_info == GetPdfInfoResult(pages, fault)
        full == ExtractTextFromPdfResult(pages, fault)
    IN  IF pdf_info.outcome = "raised"
        THEN [ outcome |-> "raised", error |-> "GetPdfInfo" ]
        ELSE IF full.outcome = "raised"
        THEN full
        ELSE LET t == TruncateContentSmart(full.text, DEFAULT_MAX_CHARS)
             IN  [ outcome |-> "returned",
                   text |-> t.text,
                   info |-> pdf_info.info,
                   was_truncated |-> t.was_truncated,
                   original_chars |-> t.original_chars,
                   final_chars |-> t.final_chars ]

(***************************************************************************)
(* The PDF specification: a file is uploaded; the page probes it with      *)
(* get_pdf_info and extracts it, on the same handle.                       *)
(***************************************************************************)
TruncIdle ==
    /\ content = << >>
    /\ max_chars = 0
    /\ calls = << >>

PdfInit ==
    /\ pdf_pages \in Docs
    /\ pdf_fault \in FaultsOf(Len(pdf_pages))
    /\ stream_pos \in StreamPositions
    /\ pdf_calls = << >>
    /\ TruncIdle
    /\ ExportIdle
    /\ SessionIdle

LastFn == IF Len(pdf_calls) = 0 THEN "none" ELSE pdf_calls[Len(pdf_calls)].fn

\* get_pdf_info(pdf_file). The reads inside leave the handle at left_at.
GetPdfInfo ==
    /\ Len(pdf_calls) = 0
    /\ \E left_at \in StreamPositions :
        LET r == GetPdfInfoResult(pdf_pages, pdf_fault)
        IN  /\ pdf_calls' = Append(pdf_calls,
                   [ fn |-> "get_pdf_info", read_from |-> 0,
                     left_at |-> left_at, res |-> r ])
            /\ stream_pos' = IF r.outcome = "returned"
                             THEN PosAfterGetPdfInfo(left_at)
                             ELSE left_at
    /\ UNCHANGED << pdf_pages, pdf_fault >>
    /\ UNCHANGED << truncVars, mdVars, inlineVars, renderVars, sessionVars >>

\* extract_text_from_pdf(pdf_file): pdfplumber reads the handle from where
\* it stands and leaves it at left_at.
ExtractTextFromPdf ==
    /\ LastFn \in { "none", "get_pdf_info" }
    /\ \E left_at \in StreamPositions :
        /\ pdf_calls' = Append(pdf_calls,
               [ fn |-> "extract_text_from_pdf", read_from |-> stream_pos,
                 left_at |-> left_at,
                 res |-> ExtractTextFromPdfResult(pdf_pages, pdf_fault) ])
        /\ stream_pos' = left_at
    /\ UNCHANGED << pdf_pages, pdf_fault >>
    /\ UNCHANGED << truncVars, mdVars, inlineVars, renderVars, sessionVars >>

\* extract_with_info(pdf_file): seek(0), get_pdf_info, seek(0), then the
\* extraction, which reads from position 0 and leaves the handle at left_at.
ExtractWithInfo ==
    /\ LastFn \in { "none", "get_pdf_info" }
    /\ \E left_at \in StreamPositions :
        /\ pdf_calls' = Append(pdf_calls,
               [ fn |-> "extract_with_info", read_from |-> 0,
                 left_at |-> left_at,
                 res |-> ExtractWithInfoResult(pdf_pages, pdf_fault) ])
        /\ stream_pos' = left_at
    /\ UNCHANGED << pdf_pages, pdf_fault >>
    /\ UNCHANGED << truncVars, mdVars, inlineVars, renderVars, sessionVars >>

PdfNext == GetPdfInfo \/ ExtractTextFromPdf \/ ExtractWithInfo

PdfSpec == PdfInit /\ [][PdfNext]_vars

(***************************************************************************)
(* Claims about truncate_content_smart, checked under TruncSpec.           *)
(***************************************************************************)
CallIds == 1..Len(calls)

\* The bracketed notice inside MARKER, without the blank lines around it.
NOTICE == SubSeq(MARKER, 3, Len(MARKER) - 2)

\* The last n characters of s, for 0 <= n <= Len(s).
Suffix(s, n) == SubSeq(s, Len(s) - n + 1, Len(s))

\* C1: for every text with len(text) <= budget, len(text) = budget included,
\* the returned text is the input, was_truncated is false and
\* original_chars = final_chars = len(text).
C1_WithinBudgetUnchanged ==
    \A i \in CallIds :
        Len(calls[i].input) <= calls[i].budget =>
            /\ calls[i].out.text = calls[i].input
            /\ calls[i].out.was_truncated = FALSE
            /\ calls[i].out.original_chars = Len(calls[i].input)
            /\ calls[i].out.final_chars = Len(calls[i].input)

\* C1 witness: a call whose text is exactly as long as a positive budget.
C1_Witness ==
    /\ Len(calls) >= 1
    /\ calls[1].budget > 0
    /\ Len(calls[1].input) = calls[1].budget

\* C2: for every text and every budget, the length of the returned text
\* (final_chars) is at most the budget.
C2_FinalWithinBudget ==
    \A i \in CallIds : calls[i].out.final_chars <= calls[i].budget

\* C3: whenever the call truncates, final_chars <= original_chars.
C3_FinalNotLonger ==
    \A i \in CallIds :
        calls[i].out.was_truncated =>
            calls[i].out.final_chars <= calls[i].out.original_chars

\* C4: a second call, with the same budget, on the text a truncating first
\* call returned gives that text back unchanged with was_truncated false.
C4_Idempotent ==
    (Len(calls) = 2 /\ calls[1].out.was_truncated) =>
        /\ calls[2].out.text = calls[1].out.text
        /\ calls[2].out.was_truncated = FALSE

\* C5 as stated: whenever the call truncates, the returned text holds exactly
\* one occurrence of the marker, the one between head and tail, for every
\* input text, texts that already hold the marker included.
C5_SingleMarkerAnyInput ==
    \A i \in CallIds :
        calls[i].out.was_truncated =>
            Occurrences(calls[i].out.text, MARKER)
                = { Len(Beginning(calls[i].input, calls[i].budget)) }

\* C5 amended: whenever the call truncates, the returned text is
\* head + MARKER + tail; when the input does not hold the marker's bracketed
\* notice, the returned text holds exactly one occurrence of the marker, the
\* one between the head and the tail.
C5_SingleMarker ==
    \A i \in CallIds :
        calls[i].out.was_truncated =>
            /\ calls[i].out.text
                   = Beginning(calls[i].input, calls[i].budget) \o MARKER
                         \o Ending(calls[i].input, calls[i].budget)
            /\ Occurrences(calls[i].input, NOTICE) = {} =>
                   Occurrences(calls[i].out.text, MARKER)
                       = { Len(Beginning(calls[i].input, calls[i].budget)) }

\* C5 witness: a truncating call on a notice-free text with page tags, whose
\* head and tail are both non-empty.
C5_Witness ==
    /\ Len(calls) >= 1
    /\ calls[1].out.was_truncated
    /\ Occurrences(calls[1].input, NOTICE) = {}
    /\ Occurrences(calls[1].input, PAGE_TAG) # {}
    /\ EndChars(calls[1].budget) > 0
    /\ Beginning(calls[1].input, calls[1].budget) # << >>
    /\ Ending(calls[1].input, calls[1].budget) # << >>

\* C6: when len(text) > budget the output is head + MARKER + tail, head a
\* prefix of the input of at most 60% of the budget, tail a suffix of at most
\* 40% of the budget, the two taken from disjoint index ranges of the input.
C6_HeadTailDisjoint ==
    \A i \in CallIds :
        Len(calls[i].input) > calls[i].budget =>
            \E h \in 0..Len(calls[i].input) :
                \E t \in 0..(Len(calls[i].input) - h) :
                    /\ 10 * h <= 6 * calls[i].budget
                    /\ 10 * t <= 4 * calls[i].budget
                    /\ calls[i].out.text
                           = PyPrefix(calls[i].input, h) \o MARKER
                                 \o Suffix(calls[i].input, t)

(***************************************************************************)
(* Claims about get_pdf_info, checked under PdfSpec.                       *)
(***************************************************************************)
PdfCallIds == 1..Len(pdf_calls)

\* The number of pages get_pdf_info samples from the uploaded PDF.
SampledPages == Min(SAMPLE_PAGES, Len(pdf_pages))

\* The text sampled from them.
SampleText == ConcatPages(pdf_pages, SampledPages)

\* Opening the PDF, or sampling one of its first pages, fails.
ProbeFails ==
    \/ pdf_fault.step = "open"
    \/ pdf_fault.step = "page" /\ pdf_fault.page <= SampledPages

\* C7 as stated: get_pdf_info never raises, and on any failure of opening or
\* sampling the metadata has pages = 0, has_text false, both estimates 0, and
\* an error string.
C7_FailureAllDefaults ==
    \A i \in PdfCallIds :
        pdf_calls[i].fn = "get_pdf_info" =>
            /\ pdf_calls[i].res.outcome = "returned"
            /\ ProbeFails =>
                /\ pdf_calls[i].res.info.pages = 0
                /\ pdf_calls[i].res.info.has_text = FALSE
                /\ pdf_calls[i].res.info.estimated_words = 0
                /\ pdf_calls[i].res.info.estimated_chars = 0
                /\ pdf_calls[i].res.info.error # ABSENT

\* C7 amended: get_pdf_info never raises, and on any failure of opening or
\* sampling the metadata has has_text false, both estimates 0 and an error
\* string; pages is 0 when opening fails and the PDF's page count when the
\* sampling of a page fails.
C7_FailureNeverRaises ==
    \A i \in PdfCallIds :
        pdf_calls[i].fn = "get_pdf_info" =>
            /\ pdf_calls[i].res.outcome = "returned"
            /\ ProbeFails =>
                /\ pdf_calls[i].res.info.pages
                       = (IF pdf_fault.step = "open" THEN 0 ELSE Len(pdf_pages))
                /\ pdf_calls[i].res.info.has_text = FALSE
                /\ pdf_calls[i].res.info.estimated_words = 0
                /\ pdf_calls[i].res.info.estimated_chars = 0
                /\ pdf_calls[i].res.info.error = << pdf_fault.msg >>
                /\ pdf_calls[i].res.info.error # ABSENT

\* C7 witness: get_pdf_info has returned after the sampling of the second
\* page raised, the first page having given text.
C7_Witness ==
    /\ Len(pdf_calls) >= 1
    /\ pdf_calls[1].fn = "get_pdf_info"
    /\ pdf_calls[1].res.outcome = "returned"
    /\ pdf_fault.step = "page"
    /\ pdf_fault.page = 2
    /\ pdf_pages[1] # << >>
    /\ pdf_calls[1].res.info.error # ABSENT

\* C8: after get_pdf_info returns, with or without a failure inside, the
\* handle is at position 0, and an extraction that follows on the same handle
\* reads from position 0.
C8_StreamReset ==
    \A i \in PdfCallIds :
        (pdf_calls[i].fn = "get_pdf_info" /\ pdf_calls[i].res.outcome = "returned") =>
            /\ i = Len(pdf_calls) => stream_pos = 0
            /\ i < Len(pdf_calls) => pdf_calls[i + 1].read_from = 0

\* C8 witness: get_pdf_info met a failure, its reads left the handle away
\* from the start, and the extraction that followed read from position 0.
C8_Witness ==
    /\ Len(pdf_calls) = 2
    /\ pdf_calls[1].fn = "get_pdf_info"
    /\ pdf_calls[1].res.outcome = "returned"
    /\ pdf_calls[1].res.info.error # ABSENT
    /\ pdf_calls[1].left_at # 0
    /\ pdf_calls[2].fn = "extract_text_from_pdf"
    /\ pdf_calls[2].read_from = 0

\* C9 as stated: has_text is true only if the sampled text is longer than
\* 100 characters.
C9_HasTextOver100 ==
    \A i \in PdfCallIds :
        (pdf_calls[i].fn = "get_pdf_info" /\ pdf_calls[i].res.info.has_text) =>
            Len(SampleText) > 100

\* C9 amended: has_text is true only if the sampled text is non-empty (longer
\* than 0 characters, not 100), and it is true whenever the sampling ends
\* without a failure on a non-empty sample.
C9_HasTextNonEmpty ==
    \A i \in PdfCallIds :
        pdf_calls[i].fn = "get_pdf_info" =>
            /\ pdf_calls[i].res.info.has_text => Len(SampleText) > 0
            /\ (~ProbeFails /\ Len(SampleText) > 0) => pdf_calls[i].res.info.has_text

\* C9 witness: has_text is true on a sample of a single character.
C9_Witness ==
    /\ Len(pdf_calls) >= 1
    /\ pdf_calls[1].fn = "get_pdf_info"
    /\ pdf_calls[1].res.info.has_text
    /\ Len(SampleText) = 1

\* C10: for a PDF of N pages whose first min(10, N) pages each hold exactly w
\* words, get_pdf_info returns estimated_words = w * N.
C10_WordExtrapolation ==
    \A i \in PdfCallIds :
        (pdf_calls[i].fn = "get_pdf_info" /\ ~ProbeFails) =>
            \A w \in 0..3 :
                (\A j \in 1..SampledPages : PyWordCount(pdf_pages[j]) = w) =>
                    pdf_calls[i].res.info.estimated_words = w * Len(pdf_pages)

(***************************************************************************)
(* Claims about extract_text_from_pdf and extract_with_info, checked under *)
(* PdfSpec.                                                                *)
(***************************************************************************)
IsExtraction(c) == c.fn \in { "extract_text_from_pdf", "extract_with_info" }

\* "[Page k]"
TagOf(k) == PAGE_TAG \o Decimal(k) \o << "]" >>

\* The length of the block of page k: its tag, a line break, its text.
BlockLen(k) == Len(TagOf(k)) + 1 + Len(pdf_pages[k])

\* The length of the text that the pages 1..n with text give, blocks and the
\* blank lines between them.
RECURSIVE TextLenUpTo(_)
TextLenUpTo(n) ==
    IF n = 0 THEN 0
    ELSE IF pdf_pages[n] = << >> THEN TextLenUpTo(n - 1)
    ELSE IF TextLenUpTo(n - 1) = 0 THEN BlockLen(n)
    ELSE TextLenUpTo(n - 1) + 2 + BlockLen(n)

\* The 0-based position at which the block of page k, a page with text,
\* starts.
BlockStart(k) == TextLenUpTo(k) - BlockLen(k)

\* C11: the extracted text holds exactly one block "[Page N]" + line break +
\* page text for each page that yields text, N the 1-based position of the
\* page, no tag for a page without text, blocks in page order with a blank
\* line between them; extract_with_info returns this text unchanged, with
\* was_truncated false, when it is within the budget.
C11_PageBlocksInOrder ==
    \A i \in PdfCallIds :
        (IsExtraction(pdf_calls[i]) /\ pdf_calls[i].res.outcome = "returned") =>
            LET text == pdf_calls[i].res.text
            IN  /\ Len(text) = TextLenUpTo(Len(pdf_pages))
                /\ \A k \in 1..Len(pdf_pages) :
                       IF pdf_pages[k] # << >>
                       THEN /\ OccursAt(text, TagOf(k) \o << "\n" >> \o pdf_pages[k],
                                        BlockStart(k))
                            /\ Occurrences(text, TagOf(k)) = { BlockStart(k) }
                            /\ BlockStart(k) > 0 =>
                                   /\ text[BlockStart(k) - 1] = "\n"
                                   /\ text[BlockStart(k)] = "\n"
                       ELSE Occurrences(text, TagOf(k)) = {}
                /\ pdf_calls[i].fn = "extract_with_info" =>
                       /\ pdf_calls[i].res.was_truncated = FALSE
                       /\ pdf_calls[i].res.original_chars = Len(text)
                       /\ pdf_calls[i].res.final_chars = Len(text)

\* C11 witness: extract_with_info has returned the text of a PDF whose tenth
\* page has text and whose eleventh has none.
C11_Witness ==
    /\ Len(pdf_calls) >= 1
    /\ pdf_calls[Len(pdf_calls)].fn = "extract_with_info"
    /\ pdf_calls[Len(pdf_calls)].res.outcome = "returned"
    /\ Len(pdf_pages) >= 11
    /\ pdf_pages[10] # << >>
    /\ pdf_pages[11] = << >>

\* The keywords the code looks for in the message of a caught exception.
PasswordWords == { "password", "encrypted" }
CorruptWords == { "corrupt", "damaged" }

\* C12 as stated: every failure is reported as one of four kinds,
\* PasswordProtected, Corrupted, Unreadable, and a generic ExtractionFailed
\* for all other failures.
C12_FourKinds ==
    \A i \in PdfCallIds :
        (IsExtraction(pdf_calls[i]) /\ pdf_calls[i].res.outcome = "raised") =>
            /\ pdf_calls[i].res.error
                   \in { "PasswordProtected", "Corrupted", "Unreadable", "ExtractionFailed" }
            /\ pdf_fault.msg \cap (PasswordWords \cup CorruptWords) = {} =>
                   pdf_calls[i].res.error = "ExtractionFailed"

\* C12 amended: every failure is reported as exactly one of three kinds:
\* PasswordProtected when the message names a password or encryption,
\* otherwise Corrupted when it names corruption or damage, otherwise the
\* generic Unreadable, which all other failures share.
C12_ThreeKinds ==
    \A i \in PdfCallIds :
        IsExtraction(pdf_calls[i]) =>
            /\ pdf_fault.step # "none" => pdf_calls[i].res.outcome = "raised"
            /\ pdf_calls[i].res.outcome = "raised" =>
                   pdf_calls[i].res.error =
                       (IF pdf_fault.msg \cap PasswordWords # {} THEN "PasswordProtected"
                        ELSE IF pdf_fault.msg \cap CorruptWords # {} THEN "Corrupted"
                        ELSE "Unreadable")

\* C12 witness: an extraction has raised on a message that names both a
\* password and corruption.
C12_Witness ==
    /\ Len(pdf_calls) >= 1
    /\ IsExtraction(pdf_calls[Len(pdf_calls)])
    /\ pdf_calls[Len(pdf_calls)].res.outcome = "raised"
    /\ pdf_fault.msg = { "password", "corrupt" }

\* C13: if reading fails at any page k, extract_text_from_pdf and
\* extract_with_info raise and return no text, never the text of the pages
\* before k.
C13_NoPartialOutput ==
    \A i \in PdfCallIds :
        (IsExtraction(pdf_calls[i]) /\ pdf_fault.step = "page") =>
            /\ pdf_calls[i].res.outcome = "raised"
            /\ "text" \notin DOMAIN pdf_calls[i].res

\* C13 witness: extract_with_info has raised on a failure at the second
\* page, after get_pdf_info, the first page having text.
C13_Witness ==
    /\ Len(pdf_calls) = 2
    /\ pdf_calls[2].fn = "extract_with_info"
    /\ pdf_calls[2].res.outcome = "raised"
    /\ pdf_fault.step = "page"
    /\ pdf_fault.page = 2
    /\ pdf_pages[1] # << >>


(***************************************************************************)
(* Python string operations used by src/utils/export.py.                   *)
(***************************************************************************)

\* c.isspace() for the characters of the model; \s of the regular expressions.
IsWs(c) == c \in {" ", "\n", "\t"}

\* The number of leading characters of s that satisfy the test.
RECURSIVE LeadingWs(_)
LeadingWs(s) ==
    IF s = << >> \/ ~IsWs(Head(s)) THEN 0 ELSE 1 + LeadingWs(Tail(s))

RECURSIVE LeadingOf(_, _)
LeadingOf(s, chars) ==
    IF s = << >> \/ Head(s) \notin chars THEN 0
    ELSE 1 + LeadingOf(Tail(s), chars)

RECURSIVE TrailingWs(_)
TrailingWs(s) ==
    IF s = << >> \/ ~IsWs(s[Len(s)]) THEN 0
    ELSE 1 + TrailingWs(SubSeq(s, 1, Len(s) - 1))

\* s.strip()
Strip(s) ==
    LET l == LeadingWs(s)
    IN  IF l = Len(s) THEN << >> ELSE SubSeq(s, l + 1, Len(s) - TrailingWs(s))

\* c in s, for a single character c
HasChar(s, c) == \E k \in 1..Len(s) : s[k] = c

\* s.startswith(prefix)
StartsWith(s, prefix) == OccursAt(s, prefix, 0)

\* s.split(c) for a single character c: one more field than there are
\* separators, so the empty string splits into one empty field.
RECURSIVE SplitOn(_, _)
SplitOn(s, c) ==
    IF ~HasChar(s, c) THEN << s >>
    ELSE LET k == CHOOSE k \in 1..Len(s) :
                      s[k] = c /\ \A m \in 1..(k - 1) : s[m] # c
         IN  << SubSeq(s, 1, k - 1) >> \o SplitOn(SubSeq(s, k + 1, Len(s)), c)

\* sep.join(parts)
RECURSIVE JoinWith(_, _)
JoinWith(parts, sep) ==
    IF parts = << >> THEN << >>
    ELSE IF Len(parts) = 1 THEN parts[1]
    ELSE parts[1] \o sep \o JoinWith(Tail(parts), sep)

\* lst[a:b] of a list, for 0 <= a and any b >= 0
PySlice(lst, a, b) == SubSeq(lst, a + 1, Min(b, Len(lst)))

\* lst[1:-1]
PyInner(lst) == SubSeq(lst, 2, Len(lst) - 1)

\* [x.strip() for x in lst]
StripEach(lst) == [k \in 1..Len(lst) |-> Strip(lst[k])]

\* The grave accent character (U+0060), which a TLA+ string cannot hold:
\* texts carry this value in its place.
BT == "BACKTICK"

\* The fence of a code block: three grave accents.
FENCE == << BT, BT, BT >>


(***************************************************************************)
(* parse_markdown_content of src/utils/export.py: the regular expressions  *)
(* it matches lines against, computed as the re module computes them.      *)
(***************************************************************************)

HASH == "#"
PIPE == "|"
NoMatch == [ok |-> FALSE, level |-> 0, text |-> << >>]

\* Mutant of HeaderMatch: any run of hashes opens a heading, of level 5 at most.
MutHeaderMatchAnyRun(line) ==
    LET h    == LeadingOf(line, {HASH})
        rest == PyFrom(line, h)
        w    == LeadingWs(rest)
    IN  IF h < 1 \/ w < 1 \/ Len(rest) = w THEN NoMatch
        ELSE [ok |-> TRUE, level |-> Min(h, 5), text |-> PyFrom(rest, w)]

\* re.match(r'^(#{1,5})\s+(.+)$', line): the level is the length of group 1
\* and the text is group 2.  A sixth '#' is no whitespace, so six or more
\* never match.  Group 2 needs one character: when only whitespace follows
\* the hashes, \s+ gives its last character back to (.+).
HeaderMatch(line) ==
    LET h    == LeadingOf(line, {HASH})
        rest == PyFrom(line, h)
        w    == LeadingWs(rest)
    IN  IF h < 1 \/ h > 5 \/ w < 1 THEN NoMatch
        ELSE IF Len(rest) > w
             THEN [ok |-> TRUE, level |-> h, text |-> PyFrom(rest, w)]
        ELSE IF w >= 2 /\ rest[w] # "\n"
             THEN [ok |-> TRUE, level |-> h, text |-> << rest[w] >>]
        ELSE NoMatch

\* re.match(r'^#{1,5}\s+', line), the test that ends a paragraph
HeaderPrefixMatch(line) ==
    LET h == LeadingOf(line, {HASH})
    IN  h >= 1 /\ h <= 5 /\ LeadingWs(PyFrom(line, h)) >= 1

\* re.match(r'^[\|\s\-:]+$', line), the separator row of a table
SeparatorMatch(line) ==
    /\ Len(line) >= 1
    /\ \A k \in 1..Len(line) : line[k] \in {PIPE, "-", ":"} \/ IsWs(line[k])

\* The length of what re.match(r'^[\s]*[-*]\s+', line) matches, -1 if nothing
BulletPrefix(line) ==
    LET w    == LeadingWs(line)
        rest == PyFrom(line, w + 1)
    IN  IF Len(line) > w /\ line[w + 1] \in {"-", "*"} /\ LeadingWs(rest) >= 1
        THEN w + 1 + LeadingWs(rest)
        ELSE -1

\* The length of what re.match(r'^[\s]*\d+\.\s+', line) matches, -1 if nothing
NumberedPrefix(line) ==
    LET w    == LeadingWs(line)
        d    == LeadingOf(PyFrom(line, w), {Digits[k] : k \in 1..10})
        rest == PyFrom(line, w + d + 1)
    IN  IF /\ d >= 1
           /\ Len(line) > w + d
           /\ line[w + d + 1] = "."
           /\ LeadingWs(rest) >= 1
        THEN w + d + 1 + LeadingWs(rest)
        ELSE -1

IsBullet(line) == BulletPrefix(line) >= 0
IsNumbered(line) == NumberedPrefix(line) >= 0

\* line.strip().startswith('```')
IsFence(line) == StartsWith(Strip(line), FENCE)

\* line.strip().startswith('>')
IsQuote(line) == StartsWith(Strip(line), << ">" >>)

IsPipeLine(line) == HasChar(line, PIPE)

\* The condition under which the paragraph loop takes one more line.
ParaContinues(line) ==
    /\ Strip(line) # << >>
    /\ ~HeaderPrefixMatch(line)
    /\ ~HasChar(line, PIPE)
    /\ \A p \in {FENCE, << ">" >>, << "-" >>, << "*" >>, << "1", "." >>} :
           ~StartsWith(Strip(line), p)

\* The loops "while i < len(lines) and test(lines[i]): i += 1": the index
\* (0-based, as in the source) at which the loop started at i stops, where
\* holds[k] tells whether the k-th line passes the test of the loop.
ScanWhile(holds, i) ==
    CHOOSE j \in i..Max(i, Len(holds)) :
        /\ j >= Len(holds) \/ ~holds[j + 1]
        /\ \A k \in i..(j - 1) : holds[k + 1]


(***************************************************************************)
(* parse_markdown_content: the elements, in the order the loop appends     *)
(* them.  Every element carries the same fields; the ones its type does   *)
(* not have in the source are empty.  start and stop are the values of    *)
(* the loop index i when the element begins and after it was appended.    *)
(***************************************************************************)

Element(type, text, items, language, start, stop) ==
    [type |-> type, text |-> text, items |-> items, language |-> language,
     start |-> start, stop |-> stop]

\* f'heading{level}'
HeadingType(level) ==
    << "heading1", "heading2", "heading3", "heading4", "heading5" >>[level]

\* lines[i].strip()[1:].strip() of a blockquote line
QuoteText(line) == Strip(PyFrom(Strip(line), 1))

\* re.sub of the list prefix by the empty string
BulletItem(line) == PyFrom(line, BulletPrefix(line))
NumberedItem(line) == PyFrom(line, NumberedPrefix(line))

\* Mutant of IsTableStart: a line with a pipe opens a table whatever follows.
MutIsTableStartNoLookAhead(lines, i) == HasChar(lines[i + 1], PIPE)

\* The test that opens a table at index i: the line holds a pipe, a next
\* line exists and it matches the separator pattern.
IsTableStart(lines, i) ==
    /\ HasChar(lines[i + 1], PIPE)
    /\ i + 1 < Len(lines)
    /\ SeparatorMatch(lines[i + 2])

\* Mutant of CodeLines: the closing fence is kept as a content line.
MutCodeLinesKeepFence(lines, i, j) == PySlice(lines, i + 1, j + 1)

\* code_lines of a block opened at index i whose scan stopped at index j
CodeLines(lines, i, j) == PySlice(lines, i + 1, j)

\* One pass of the body of "while i < len(lines)", for i < len(lines).
ElementAt(lines, i) ==
    LET line == lines[i + 1]
        hm   == HeaderMatch(line)
    IN  IF Strip(line) = << >>
        THEN Element("empty", << >>, << >>, << >>, i, i + 1)
        ELSE IF hm.ok
        THEN Element(HeadingType(hm.level), hm.text, << >>, << >>, i, i + 1)
        ELSE IF IsTableStart(lines, i)
        THEN LET j == ScanWhile([k \in 1..Len(lines) |-> IsPipeLine(lines[k])], i + 1)
             IN  Element("table", << >>, PySlice(lines, i, j), << >>, i, j)
        ELSE IF IsFence(line)
        THEN LET j == ScanWhile([k \in 1..Len(lines) |-> ~IsFence(lines[k])], i + 1)
             IN  Element("code",
                         JoinWith(CodeLines(lines, i, j), << "\n" >>),
                         << >>, PyFrom(Strip(line), 3), i, j + 1)
        ELSE IF IsQuote(line)
        THEN LET j == ScanWhile([k \in 1..Len(lines) |-> IsQuote(lines[k])], i)
             IN  Element("blockquote",
                         JoinWith([k \in 1..(j - i) |-> QuoteText(lines[i + k])],
                                  << " " >>),
                         << >>, << >>, i, j)
        ELSE IF IsBullet(line)
        THEN LET j == ScanWhile([k \in 1..Len(lines) |-> IsBullet(lines[k])], i)
             IN  Element("bullet_list", << >>,
                         [k \in 1..(j - i) |-> BulletItem(lines[i + k])],
                         << >>, i, j)
        ELSE IF IsNumbered(line)
        THEN LET j == ScanWhile([k \in 1..Len(lines) |-> IsNumbered(lines[k])], i)
             IN  Element("numbered_list", << >>,
                         [k \in 1..(j - i) |-> NumberedItem(lines[i + k])],
                         << >>, i, j)
        ELSE LET j == ScanWhile([k \in 1..Len(lines) |-> ParaContinues(lines[k])], i + 1)
             IN  Element("paragraph",
                         JoinWith(PySlice(lines, i, j), << " " >>),
                         << >>, << >>, i, j)

\* The loop from index i to the end of the lines.
RECURSIVE ParseFrom(_, _)
ParseFrom(lines, i) ==
    IF i >= Len(lines) THEN << >>
    ELSE LET el == ElementAt(lines, i)
         IN  << el >> \o ParseFrom(lines, el.stop)

\* parse_markdown_content(content)
ParseMarkdownContent(text) == ParseFrom(SplitOn(text, "\n"), 0)


(***************************************************************************)
(* parse_table of src/utils/export.py.                                     *)
(***************************************************************************)

\* [cell.strip() for cell in line.split('|')[1:-1]]
PipeCells(line) == StripEach(PyInner(SplitOn(line, PIPE)))

\* Mutant of RowCells: a long row keeps its extra cells.
MutRowCellsNoCut(line, n) ==
    LET cells == PipeCells(line)
    IN  cells \o [k \in 1..Max(0, n - Len(cells)) |-> << >>]

\* The cells of a data row under n headers: padded with empty cells while
\* there are fewer than n, then cut to the first n.
RowCells(line, n) ==
    LET cells  == PipeCells(line)
        padded == cells \o [k \in 1..Max(0, n - Len(cells)) |-> << >>]
    IN  PySlice(padded, 0, n)

\* The lines of table_lines[2:] that hold a pipe, in order.
RECURSIVE PipeLinesOf(_)
PipeLinesOf(lines) ==
    IF lines = << >> THEN << >>
    ELSE IF HasChar(Head(lines), PIPE)
         THEN << Head(lines) >> \o PipeLinesOf(Tail(lines))
         ELSE PipeLinesOf(Tail(lines))

\* parse_table(table_lines)
ParseTable(table_lines) ==
    IF Len(table_lines) < 2
    THEN [headers |-> << >>, rows |-> << >>]
    ELSE LET headers == PipeCells(table_lines[1])
             data    == PipeLinesOf(PyFrom(table_lines, 2))
         IN  [headers |-> headers,
              rows    |-> [k \in 1..Len(data) |->
                               RowCells(data[k], Len(headers))]]


(***************************************************************************)
(* The Markdown specification: an export parses a Markdown text into       *)
(* elements (export_to_docx and export_to_pdf both begin with              *)
(* parse_markdown_content) and then hands the lines of every table element *)
(* to parse_table.                                                         *)
(***************************************************************************)

\* The lines texts are made of: blank, headings of level 1 and 5, six
\* hashes, a hash without a space, table rows with and without outer pipes,
\* separator rows with and without pipes, short and long data rows, a
\* fence, a quote, list items, plain text and a list item holding a pipe.
MdLines ==
    { << >>,
      << "#", " ", "a" >>,
      << "#", "#", "#", "#", "#", " ", "a" >>,
      << "#", "#", "#", "#", "#", "#", " ", "a" >>,
      << "#", "a" >>,
      << "|", "A", "|", "B", "|" >>,
      << "A", "|", "B" >>,
      << "|", "-", "|", "-", "|" >>,
      << "-", "-", "-" >>,
      << "|", "1", "|" >>,
      << "|", "1", "|", "2", "|", "3", "|" >>,
      << BT, BT, BT >>,
      << ">", " ", "a" >>,
      << "-", " ", "a" >>,
      << "1", ".", " ", "a" >>,
      << "2", ".", " ", "a" >>,
      << "a" >>,
      << "-", " ", "a", "|", "b" >> }

\* The texts of n lines: the lines joined by newlines.
MdTextsOf(n) == { JoinWith(d, << "\n" >>) : d \in [1..n -> MdLines] }

NoTable == [headers |-> << >>, rows |-> << >>]

\* A text of one to MaxMdLines lines.
MdInit ==
    /\ \E n \in 1..MaxMdLines : md_content \in MdTextsOf(n)
    /\ md_pc = "start"
    /\ md_elements = << >>
    /\ md_tables = << >>
    /\ md_lines = << >>
    /\ md_i = 0
    /\ InlineIdle
    /\ RenderIdle
    /\ SessionIdle
    /\ TruncIdle
    /\ PdfIdle

\* elements = parse_markdown_content(content)
ParseMarkdown ==
    /\ md_pc = "start"
    /\ md_elements' = ParseMarkdownContent(md_content)
    /\ md_pc' = "parsed"
    /\ UNCHANGED << md_content, md_tables, md_lines, md_i >>
    /\ UNCHANGED << truncVars, pdfVars, inlineVars, renderVars, sessionVars >>

\* The loop over the elements: table_data = parse_table(element['lines'])
\* for every table element.
ParseTables ==
    /\ md_pc = "parsed"
    /\ md_tables' = [k \in 1..Len(md_elements) |->
                        IF md_elements[k].type = "table"
                        THEN ParseTable(md_elements[k].items)
                        ELSE NoTable]
    /\ md_pc' = "tables"
    /\ UNCHANGED << md_content, md_elements, md_lines, md_i >>
    /\ UNCHANGED << truncVars, pdfVars, inlineVars, renderVars, sessionVars >>

MdNext == ParseMarkdown \/ ParseTables

MdSpec == MdInit /\ [][MdNext]_vars


(***************************************************************************)
(* Claims about parse_markdown_content and parse_table, checked under      *)
(* MdSpec.                                                                 *)
(***************************************************************************)

ElementIds == 1..Len(md_elements)
TableIds == { k \in 1..Len(md_tables) : md_elements[k].type = "table" }

\* The lines of the text, as the parser splits them.
MdSourceLines == SplitOn(md_content, "\n")

\* The source line of the r-th data row of the table element k: the header
\* and the separator come first.
DataLine(k, r) == md_elements[k].items[r + 2]

\* C14: in every table produced from Markdown, every data row has exactly
\* as many cells as there are headers; cell c of a row is the c-th source
\* cell of its line when the line has one, and the empty string otherwise
\* (short rows are padded, long rows are cut).
C14_RowsMatchHeaders ==
    md_pc = "tables" =>
        \A k \in TableIds :
            LET t == md_tables[k]
                n == Len(t.headers)
            IN  /\ Len(t.rows) = Max(0, Len(md_elements[k].items) - 2)
                /\ \A r \in 1..Len(t.rows) :
                       LET src == PipeCells(DataLine(k, r))
                       IN  /\ Len(t.rows[r]) = n
                           /\ \A c \in 1..n :
                                  t.rows[r][c] =
                                      IF c <= Len(src) THEN src[c] ELSE << >>

\* C14 witness: a table with two headers whose row had three source cells.
C14_Witness ==
    /\ md_pc = "tables"
    /\ \E k \in TableIds :
           /\ Len(md_tables[k].headers) = 2
           /\ \E r \in 1..Len(md_tables[k].rows) :
                  /\ Len(PipeCells(DataLine(k, r))) = 3
                  /\ md_tables[k].rows[r] = << << "1" >>, << "2" >> >>


\* The trimmed pipe-delimited fields of a line, without the empty field a
\* leading pipe puts first and the empty field a trailing pipe puts last.
TrimmedFields(line) ==
    LET fields == StripEach(SplitOn(line, PIPE))
        first  == IF StartsWith(Strip(line), << PIPE >>) THEN 2 ELSE 1
        last   == IF Strip(line)[Len(Strip(line))] = PIPE
                  THEN Len(fields) - 1 ELSE Len(fields)
    IN  SubSeq(fields, first, last)

\* C15: the header cells of a parsed table are the trimmed pipe-delimited
\* fields of its header line, leaving out only the empty outer fields of a
\* leading and a trailing pipe, whether the line has outer pipes or not.
C15_HeaderCells ==
    md_pc = "tables" =>
        \A k \in TableIds :
            md_tables[k].headers = TrimmedFields(md_elements[k].items[1])


\* The line at which element k begins.
StartLine(k) == MdSourceLines[md_elements[k].start + 1]

\* The line after the one element k begins at is a separator row.
SeparatorFollows(k) ==
    /\ md_elements[k].start + 1 < Len(MdSourceLines)
    /\ SeparatorMatch(MdSourceLines[md_elements[k].start + 2])

\* Element k begins at a line that holds a pipe, is neither blank nor a
\* heading, and has no separator row on the next line (or no next line).
LonePipeLine(k) ==
    /\ HasChar(StartLine(k), PIPE)
    /\ Strip(StartLine(k)) # << >>
    /\ ~HeaderMatch(StartLine(k)).ok
    /\ ~SeparatorFollows(k)

\* C16 as stated: a table begins only at a line holding a pipe whose next
\* line is a separator row, and a line holding a pipe without a separator
\* row on the next line yields no table and is handled as a paragraph.
C16_LonePipeLineIsParagraph ==
    md_pc # "start" =>
        \A k \in ElementIds :
            /\ md_elements[k].type = "table" =>
                   HasChar(StartLine(k), PIPE) /\ SeparatorFollows(k)
            /\ LonePipeLine(k) => md_elements[k].type = "paragraph"

\* C16 as the code has it: a table begins only at a line holding a pipe
\* whose next line is a separator row; a line holding a pipe without a
\* separator row on the next line yields no table and falls through to the
\* rules that come after the table rule: it opens a code block, a
\* blockquote, a bullet list or a numbered list when it has that shape, and
\* is a paragraph otherwise.
C16_LonePipeLineFallsThrough ==
    md_pc # "start" =>
        \A k \in ElementIds :
            /\ md_elements[k].type = "table" =>
                   HasChar(StartLine(k), PIPE) /\ SeparatorFollows(k)
            /\ LonePipeLine(k) =>
                   md_elements[k].type =
                       IF IsFence(StartLine(k)) THEN "code"
                       ELSE IF IsQuote(StartLine(k)) THEN "blockquote"
                       ELSE IF IsBullet(StartLine(k)) THEN "bullet_list"
                       ELSE IF IsNumbered(StartLine(k)) THEN "numbered_list"
                       ELSE "paragraph"

\* C16 witness: a list item holding a pipe became a bullet list, and a line
\* holding a pipe that is the last line of the text became a paragraph.
C16_Witness ==
    /\ md_pc # "start"
    /\ \E k \in ElementIds :
           LonePipeLine(k) /\ md_elements[k].type = "bullet_list"
    /\ \E k \in ElementIds :
           /\ LonePipeLine(k)
           /\ md_elements[k].start + 1 = Len(MdSourceLines)
           /\ md_elements[k].type = "paragraph"


HeadingTypes == { HeadingType(l) : l \in 1..5 }

\* The number of '#' characters the line of element k begins with.
LeadingHashes(k) == LeadingOf(StartLine(k), {HASH})

\* C17: every heading element has a level in 1..5 that equals the number of
\* leading '#' characters of its source line, and a non-empty text; a line
\* that begins with six or more '#' never yields a heading.
C17_HeadingLevels ==
    md_pc # "start" =>
        \A k \in ElementIds :
            /\ md_elements[k].type \in HeadingTypes =>
                   /\ LeadingHashes(k) \in 1..5
                   /\ md_elements[k].type = HeadingType(LeadingHashes(k))
                   /\ md_elements[k].text # << >>
            /\ LeadingHashes(k) >= 6 => md_elements[k].type \notin HeadingTypes

\* C17 witness: a line of five hashes became a level-5 heading and a line of
\* six hashes became a paragraph.
C17_Witness ==
    /\ md_pc # "start"
    /\ \E k \in ElementIds :
           /\ LeadingHashes(k) = 5
           /\ md_elements[k].type = "heading5"
           /\ md_elements[k].text = << "a" >>
    /\ \E k \in ElementIds :
           LeadingHashes(k) = 6 /\ md_elements[k].type = "paragraph"


\* The indices (0-based) of the fence lines below the line element k begins at.
FencesBelow(k) ==
    { j \in (md_elements[k].start + 1)..(Len(MdSourceLines) - 1) :
          IsFence(MdSourceLines[j + 1]) }

\* The index of the closing fence of the code element k, or the number of
\* lines when the fence is never closed.
ClosingFence(k) ==
    IF FencesBelow(k) = { } THEN Len(MdSourceLines)
    ELSE CHOOSE j \in FencesBelow(k) : \A m \in FencesBelow(k) : j <= m

\* C18: a code element begins at a fence line; its content is the lines
\* strictly between that line and the closing fence, joined by newlines,
\* whatever those lines look like; no other element begins inside the block
\* or at its closing fence; when the fence is never closed the content is
\* every remaining line and the code element is the last one.  Parsing has
\* completed in every such state.
C18_CodeBlockContent ==
    md_pc # "start" =>
        \A k \in ElementIds :
            md_elements[k].type = "code" =>
                LET i == md_elements[k].start
                    j == ClosingFence(k)
                IN  /\ IsFence(StartLine(k))
                    /\ md_elements[k].text =
                           JoinWith(SubSeq(MdSourceLines, i + 2, j), << "\n" >>)
                    /\ \A m \in ElementIds :
                           m # k => md_elements[m].start \notin i..j
                    /\ FencesBelow(k) = { } => k = Len(md_elements)

\* C18 witness: a closed block whose only inner line looks like a heading
\* became one code element holding that line.
C18_Witness ==
    /\ md_pc # "start"
    /\ Len(md_elements) = 1
    /\ md_elements[1].type = "code"
    /\ FencesBelow(1) # { }
    /\ md_elements[1].text = << "#", " ", "a" >>

\* A second reachable case of C18: a fence that is never closed took the
\* two lines after it, a heading-like line among them.
C18_UnterminatedCase ==
    /\ md_pc # "start"
    /\ Len(md_elements) = 1
    /\ md_elements[1].type = "code"
    /\ FencesBelow(1) = { }
    /\ Len(md_elements[1].text) = 7
    /\ md_elements[1].stop > Len(MdSourceLines)


(***************************************************************************)
(* parse_inline_formatting of src/utils/export.py.  A formatting           *)
(* dictionary is the set of its keys (every value is True).                *)
(***************************************************************************)

\* patterns: each regular expression is an opening marker, (.+?), and a
\* closing marker.
Patterns ==
    << [open |-> << "*", "*", "*" >>, close |-> << "*", "*", "*" >>, format |-> {"bold", "italic"}],
       [open |-> << "*", "*" >>, close |-> << "*", "*" >>, format |-> {"bold"}],
       [open |-> << "_", "_" >>, close |-> << "_", "_" >>, format |-> {"bold"}],
       [open |-> << "*" >>, close |-> << "*" >>, format |-> {"italic"}],
       [open |-> << "_" >>, close |-> << "_" >>, format |-> {"italic"}],
       [open |-> << "~", "~" >>, close |-> << "~", "~" >>, format |-> {"strikethrough"}],
       [open |-> << "<", "u", ">" >>, close |-> << "<", "/", "u", ">" >>, format |-> {"underline"}],
       [open |-> << "<", "s", "u", "p", ">" >>, close |-> << "<", "/", "s", "u", "p", ">" >>, format |-> {"superscript"}],
       [open |-> << "<", "s", "u", "b", ">" >>, close |-> << "<", "/", "s", "u", "b", ">" >>, format |-> {"subscript"}],
       [open |-> << "^" >>, close |-> << "^" >>, format |-> {"superscript"}],
       [open |-> << "~" >>, close |-> << "~" >>, format |-> {"subscript"}],
       [open |-> << BT >>, close |-> << BT >>, format |-> {"code"}] >>

PatternIds == 1..Len(Patterns)

NoInlineMatch ==
    [found |-> FALSE, pattern |-> 0, start |-> 0, end |-> 0, group |-> << >>]

\* The first position j >= from at which the closing marker c occurs, with
\* no newline between the opening marker and j ((.+?) is lazy and takes no
\* newline); -1 when there is none.  from is one past the first character
\* of the group, so the group is never empty.
RECURSIVE FirstCloser(_, _, _)
FirstCloser(text, c, from) ==
    IF from > Len(text) - Len(c) \/ text[from] = "\n" THEN -1
    ELSE IF OccursAt(text, c, from) THEN from
    ELSE FirstCloser(text, c, from + 1)

\* The leftmost match of pattern p that starts at position i or later.
RECURSIVE SearchFrom(_, _, _)
SearchFrom(text, p, i) ==
    IF i >= Len(text) THEN NoInlineMatch
    ELSE IF /\ OccursAt(text, Patterns[p].open, i)
            /\ FirstCloser(text, Patterns[p].close,
                           i + Len(Patterns[p].open) + 1) >= 0
         THEN [found   |-> TRUE,
               pattern |-> p,
               start   |-> i,
               end     |-> FirstCloser(text, Patterns[p].close,
                                       i + Len(Patterns[p].open) + 1)
                               + Len(Patterns[p].close),
               group   |-> SubSeq(text, i + Len(Patterns[p].open) + 1,
                                  FirstCloser(text, Patterns[p].close,
                                              i + Len(Patterns[p].open) + 1))]
         ELSE SearchFrom(text, p, i + 1)

\* re.search(pattern, text)
PatternSearch(text, p) == SearchFrom(text, p, 0)

\* The patterns that match somewhere in the text.
Matching(text) == { p \in PatternIds : PatternSearch(text, p).found }

\* Mutant of Replaces: a match that starts where the best one does replaces it.
MutReplacesOnTie(m, best) == m.found /\ (~best.found \/ m.start <= best.start)

\* Mutant of Replaces: the first pattern of the list that matches is kept.
MutReplacesOnlyNone(m, best) == m.found /\ ~best.found

\* "if match and match.start() < earliest_pos": the match m of the current
\* pattern replaces the best one so far.  Before any match earliest_pos is
\* len(remaining), which every match starts before.
Replaces(m, best) == m.found /\ (~best.found \/ m.start < best.start)

\* The for loop over the patterns from the p-th on: the match it ends with.
RECURSIVE ScanPatterns(_, _, _)
ScanPatterns(remaining, p, best) ==
    IF p > Len(Patterns) THEN best
    ELSE LET m == PatternSearch(remaining, p)
         IN  ScanPatterns(remaining, p + 1, IF Replaces(m, best) THEN m ELSE best)

\* earliest_match after the for loop
EarliestMatch(remaining) == ScanPatterns(remaining, 1, NoInlineMatch)

Span(text, format) == [text |-> text, format |-> format]

\* The spans one pass appends to result, given its earliest match.
Emitted(remaining, m) ==
    IF ~m.found THEN << Span(remaining, { }) >>
    ELSE (IF m.start > 0
          THEN << Span(PyPrefix(remaining, m.start), { }) >>
          ELSE << >>)
         \o << Span(m.group, Patterns[m.pattern].format) >>

\* One pass of the body of "while remaining", for a non-empty remaining:
\* the pattern chosen (0 when none matches), where its match starts and
\* ends in remaining, and the spans the pass appends to result.
StepOf(remaining, m) ==
    [remaining |-> remaining, found |-> m.found, pattern |-> m.pattern,
     start |-> m.start, end |-> m.end, emitted |-> Emitted(remaining, m)]

\* The passes of the loop, in order: it goes on with
\* remaining[earliest_match.end():] after a match and breaks without one.
RECURSIVE InlineSteps(_)
InlineSteps(remaining) ==
    IF remaining = << >> THEN << >>
    ELSE LET m == EarliestMatch(remaining)
         IN  << StepOf(remaining, m) >>
                 \o (IF m.found THEN InlineSteps(PyFrom(remaining, m.end))
                     ELSE << >>)

\* The concatenation of a sequence of sequences.
RECURSIVE Flatten(_)
Flatten(seqs) ==
    IF seqs = << >> THEN << >> ELSE Head(seqs) \o Flatten(Tail(seqs))

\* result after the loop, given its passes
RECURSIVE ResultOf(_)
ResultOf(steps) ==
    IF steps = << >> THEN << >>
    ELSE Head(steps).emitted \o ResultOf(Tail(steps))

\* parse_inline_formatting(text): "result if result else [(text, {})]"
ParseInlineFormatting(text) ==
    LET result == ResultOf(InlineSteps(text))
    IN  IF result # << >> THEN result ELSE << Span(text, { }) >>

(***************************************************************************)
(* convert_inline_to_reportlab of src/utils/export.py: one re.sub after    *)
(* the other, each over the whole text.                                    *)
(***************************************************************************)

\* The substitutions in the order the function makes them: the pattern
\* (its place in Patterns) and what replaces its two markers.  The
\* single-tilde rule is the tenth and, unlike the pattern of
\* parse_inline_formatting, its group is ([^~]+?).
ConvertRules ==
    << [pattern |-> 1, before |-> << "<", "b", ">", "<", "i", ">" >>,
        after |-> << "<", "/", "i", ">", "<", "/", "b", ">" >>],
       [pattern |-> 2, before |-> << "<", "b", ">" >>,
        after |-> << "<", "/", "b", ">" >>],
       [pattern |-> 3, before |-> << "<", "b", ">" >>,
        after |-> << "<", "/", "b", ">" >>],
       [pattern |-> 4, before |-> << "<", "i", ">" >>,
        after |-> << "<", "/", "i", ">" >>],
       [pattern |-> 5, before |-> << "<", "i", ">" >>,
        after |-> << "<", "/", "i", ">" >>],
       [pattern |-> 7, before |-> << "<", "u", ">" >>,
        after |-> << "<", "/", "u", ">" >>],
       [pattern |-> 8, before |-> << "<", "s", "u", "p", "e", "r", ">" >>,
        after |-> << "<", "/", "s", "u", "p", "e", "r", ">" >>],
       [pattern |-> 10, before |-> << "<", "s", "u", "p", "e", "r", ">" >>,
        after |-> << "<", "/", "s", "u", "p", "e", "r", ">" >>],
       [pattern |-> 9, before |-> << "<", "s", "u", "b", ">" >>,
        after |-> << "<", "/", "s", "u", "b", ">" >>],
       [pattern |-> 11, before |-> << "<", "s", "u", "b", ">" >>,
        after |-> << "<", "/", "s", "u", "b", ">" >>],
       [pattern |-> 12, before |-> << "<", "f", "o", "n", "t", " ", "n", "a", "m", "e", "=", "\"", "C", "o", "u", "r", "i", "e", "r", "\"", " ", "s", "i", "z", "e", "=", "\"", "9", "\"", ">" >>,
        after |-> << "<", "/", "f", "o", "n", "t", ">" >>],
       [pattern |-> 6, before |-> << "<", "s", "t", "r", "i", "k", "e", ">" >>,
        after |-> << "<", "/", "s", "t", "r", "i", "k", "e", ">" >>] >>

TILDE_RULE == 10

\* The first position j >= from that holds a tilde; -1 when there is none.
RECURSIVE NextTilde(_, _)
NextTilde(text, from) ==
    IF from >= Len(text) THEN -1
    ELSE IF text[from + 1] = "~" THEN from
    ELSE NextTilde(text, from + 1)

\* re.search(r'~([^~]+?)~', text) from position i on: a tilde, one or more
\* characters that are no tilde (a newline is one), and the next tilde.
RECURSIVE TildeSearchFrom(_, _)
TildeSearchFrom(text, i) ==
    IF i >= Len(text) THEN NoInlineMatch
    ELSE IF text[i + 1] = "~" /\ NextTilde(text, i + 1) > i + 1
         THEN [found   |-> TRUE,
               pattern |-> 11,
               start   |-> i,
               end     |-> NextTilde(text, i + 1) + 1,
               group   |-> SubSeq(text, i + 2, NextTilde(text, i + 1))]
         ELSE TildeSearchFrom(text, i + 1)

\* The leftmost match of the r-th substitution's pattern in the text.
RuleSearch(text, r) ==
    IF r = TILDE_RULE THEN TildeSearchFrom(text, 0)
    ELSE PatternSearch(text, ConvertRules[r].pattern)

\* re.sub of the r-th substitution: every match, left to right, each search
\* going on where the previous match ended; what was put in is not searched.
RECURSIVE SubAll(_, _)
SubAll(text, r) ==
    LET m == RuleSearch(text, r)
    IN  IF ~m.found THEN text
        ELSE PyPrefix(text, m.start)
                 \o ConvertRules[r].before \o m.group \o ConvertRules[r].after
                 \o SubAll(PyFrom(text, m.end), r)

\* The text after the substitutions from the r-th on.
RECURSIVE ConvertFrom(_, _)
ConvertFrom(text, r) ==
    IF r > Len(ConvertRules) THEN text
    ELSE ConvertFrom(SubAll(text, r), r + 1)

\* convert_inline_to_reportlab(text)
ConvertInlineToReportlab(text) == ConvertFrom(text, 1)

(***************************************************************************)
(* The inline specification: a block's text is split into spans, as        *)
(* add_formatted_paragraph does with the text of a paragraph.              *)
(***************************************************************************)

\* The pieces texts are made of: content, every one- to three-character
\* marker, the underline tags, and four complete formatted spans.
InlinePieces ==
    { << "a" >>,
      << "*" >>,
      << "*", "*" >>,
      << "*", "*", "*" >>,
      << "_" >>,
      << "_", "_" >>,
      << "~" >>,
      << "~", "~" >>,
      << "^" >>,
      << BT >>,
      << "<", "u", ">" >>,
      << "<", "/", "u", ">" >>,
      << "<", "s", "u", "p", ">", "a", "<", "/", "s", "u", "p", ">" >>,
      << "<", "s", "u", "b", ">", "a", "<", "/", "s", "u", "b", ">" >>,
      << "_", "a", "_" >>,
      << "*", "*", "a", "*", "*" >> }

\* The texts of n pieces.
InlineTextsOf(n) == { Flatten(d) : d \in [1..n -> InlinePieces] }

\* A text of at most MaxInlinePieces pieces.
InlineInit ==
    /\ \E n \in 0..MaxInlinePieces : inline_text \in InlineTextsOf(n)
    /\ inline_calls = << >>
    /\ rl_calls = << >>
    /\ MdIdle
    /\ RenderIdle
    /\ SessionIdle
    /\ TruncIdle
    /\ PdfIdle

\* parts = parse_inline_formatting(text)
ParseInline ==
    /\ inline_calls = << >>
    /\ inline_calls' = << [input  |-> inline_text,
                           steps  |-> InlineSteps(inline_text),
                           result |-> ParseInlineFormatting(inline_text)] >>
    /\ UNCHANGED << inline_text, rl_calls >>
    /\ UNCHANGED << truncVars, pdfVars, mdVars, renderVars, sessionVars >>

\* text = convert_inline_to_reportlab(text), the PDF side of the same text
ConvertInline ==
    /\ rl_calls = << >>
    /\ rl_calls' = << [input  |-> inline_text,
                       markup |-> ConvertInlineToReportlab(inline_text)] >>
    /\ UNCHANGED << inline_text, inline_calls >>
    /\ UNCHANGED << truncVars, pdfVars, mdVars, renderVars, sessionVars >>

InlineNext == ParseInline

\* The same text exported in both forms: the spans for the word-processor
\* form and the markup for the PDF form, in either order.
InlineRenderNext == ParseInline \/ ConvertInline

InlineRenderSpec == InlineInit /\ [][InlineRenderNext]_vars

InlineSpec == InlineInit /\ [][InlineNext]_vars


(***************************************************************************)
(* Claims about parse_inline_formatting, checked under InlineSpec; C22     *)
(* compares it with convert_inline_to_reportlab under InlineRenderSpec.    *)
(***************************************************************************)

InlineCallIds == 1..Len(inline_calls)

\* The markers of the patterns: every opening and closing marker.
Markers ==
    { Patterns[p].open : p \in PatternIds }
        \cup { Patterns[p].close : p \in PatternIds }

\* The text without its formatting markers: wherever a marker begins, the
\* longest marker that begins there is left out.
RECURSIVE StripMarkers(_)
StripMarkers(text) ==
    IF text = << >> THEN << >>
    ELSE LET here == { m \in Markers : StartsWith(text, m) }
         IN  IF here = { }
             THEN << Head(text) >> \o StripMarkers(Tail(text))
             ELSE LET m == CHOOSE m \in here :
                               \A n \in here : Len(n) <= Len(m)
                  IN  StripMarkers(PyFrom(text, Len(m)))

\* The texts of the spans of a result, concatenated.
SpanTexts(result) == Flatten([k \in 1..Len(result) |-> result[k].text])

\* C19: the texts of the spans parse_inline_formatting returns, concatenated
\* in order, are the input with its formatting markers removed and every
\* other character kept in order, and no span's text holds a marker.
C19_MarkersRemoved ==
    \A c \in InlineCallIds :
        /\ SpanTexts(inline_calls[c].result) = StripMarkers(inline_calls[c].input)
        /\ \A k \in 1..Len(inline_calls[c].result) :
               StripMarkers(inline_calls[c].result[k].text) =
                   inline_calls[c].result[k].text


\* The passes of call c in which a pattern matched.
FoundSteps(c) ==
    { k \in 1..Len(inline_calls[c].steps) : inline_calls[c].steps[k].found }

\* C20: in every pass that finds a match, the match taken is one of a
\* pattern's own leftmost matches in the remaining text and no pattern has
\* a match that starts earlier; the pass emits the text before the match
\* as a plain span (when there is any) and then the matched content with
\* the pattern's format; and the next pass scans the text that follows the
\* end of the match.  A pass without a match emits the remaining text as a
\* plain span and is the last.  The result is what the passes emitted.
C20_EarliestMatchFirst ==
    \A c \in InlineCallIds :
        LET steps == inline_calls[c].steps
        IN  /\ \A k \in 1..Len(steps) :
                   LET st == steps[k]
                       m  == PatternSearch(st.remaining, st.pattern)
                   IN  IF st.found
                       THEN /\ m.found /\ m.start = st.start /\ m.end = st.end
                            /\ \A q \in PatternIds :
                                   LET other == PatternSearch(st.remaining, q)
                                   IN  other.found => st.start <= other.start
                            /\ st.emitted =
                                   (IF st.start > 0
                                    THEN << Span(PyPrefix(st.remaining, st.start), { }) >>
                                    ELSE << >>)
                                   \o << Span(m.group, Patterns[st.pattern].format) >>
                            /\ IF PyFrom(st.remaining, st.end) = << >>
                               THEN k = Len(steps)
                               ELSE /\ k < Len(steps)
                                    /\ steps[k + 1].remaining =
                                           PyFrom(st.remaining, st.end)
                       ELSE /\ Matching(st.remaining) = { }
                            /\ st.emitted = << Span(st.remaining, { }) >>
                            /\ k = Len(steps)
            /\ steps # << >> =>
                   /\ steps[1].remaining = inline_calls[c].input
                   /\ inline_calls[c].result =
                          Flatten([k \in 1..Len(steps) |-> steps[k].emitted])

\* C20 witness: in "_a_**a**" the bold pattern comes first in the list but
\* the italic match starts first: the first pass took the italic match at
\* position 0, the second pass took the bold match in what followed.
C20_Witness ==
    \E c \in InlineCallIds :
        LET steps == inline_calls[c].steps
        IN  /\ Len(steps) = 2
            /\ steps[1].found /\ steps[1].pattern = 5 /\ steps[1].start = 0
            /\ \E q \in Matching(steps[1].remaining) : q < 5
            /\ steps[2].found /\ steps[2].pattern = 2
            /\ inline_calls[c].result =
                   << Span(<< "a" >>, {"italic"}), Span(<< "a" >>, {"bold"}) >>


\* The delimited forms, with the attributes each one names.
NamedForms ==
    << [open |-> << "*", "*", "*" >>, close |-> << "*", "*", "*" >>, attrs |-> {"bold", "italic"}],
       [open |-> << "*", "*" >>, close |-> << "*", "*" >>, attrs |-> {"bold"}],
       [open |-> << "_", "_" >>, close |-> << "_", "_" >>, attrs |-> {"bold"}],
       [open |-> << "*" >>, close |-> << "*" >>, attrs |-> {"italic"}],
       [open |-> << "_" >>, close |-> << "_" >>, attrs |-> {"italic"}],
       [open |-> << "~", "~" >>, close |-> << "~", "~" >>, attrs |-> {"strikethrough"}],
       [open |-> << "<", "u", ">" >>, close |-> << "<", "/", "u", ">" >>, attrs |-> {"underline"}],
       [open |-> << "<", "s", "u", "p", ">" >>, close |-> << "<", "/", "s", "u", "p", ">" >>, attrs |-> {"superscript"}],
       [open |-> << "^" >>, close |-> << "^" >>, attrs |-> {"superscript"}],
       [open |-> << "<", "s", "u", "b", ">" >>, close |-> << "<", "/", "s", "u", "b", ">" >>, attrs |-> {"subscript"}],
       [open |-> << "~" >>, close |-> << "~" >>, attrs |-> {"subscript"}],
       [open |-> << BT >>, close |-> << BT >>, attrs |-> {"code"}] >>

\* The characters markers are made of.
MarkerChars == { "*", "_", "~", "^", BT, "<", ">" }

\* The text has a character and none of them belongs to a marker.
IsMarkerFree(x) == x # << >> /\ \A k \in 1..Len(x) : x[k] \notin MarkerChars

\* The text is the form f around a marker-free text.
IsFormOf(text, f) ==
    /\ Len(text) > Len(NamedForms[f].open) + Len(NamedForms[f].close)
    /\ StartsWith(text, NamedForms[f].open)
    /\ OccursAt(text, NamedForms[f].close, Len(text) - Len(NamedForms[f].close))
    /\ IsMarkerFree(SubSeq(text, Len(NamedForms[f].open) + 1,
                           Len(text) - Len(NamedForms[f].close)))

\* C21: a marker-free text x inside one delimited form yields the single
\* span (x, attrs) with the attributes the form names: the triple asterisk
\* is bold and italic, the double asterisk and double underscore bold, the
\* single ones italic, the double tilde strikethrough, the single tilde
\* subscript, and so on; a longer marker is never read as the shorter one
\* that begins with the same character.
C21_DelimitedForms ==
    \A c \in InlineCallIds :
        \A f \in 1..Len(NamedForms) :
            IsFormOf(inline_calls[c].input, f) =>
                inline_calls[c].result =
                    << Span(SubSeq(inline_calls[c].input,
                                   Len(NamedForms[f].open) + 1,
                                   Len(inline_calls[c].input)
                                       - Len(NamedForms[f].close)),
                            NamedForms[f].attrs) >>

\* C21 witness: "***a***" became the single span ("a", {bold, italic}).
C21_Witness ==
    \E c \in InlineCallIds :
        /\ IsFormOf(inline_calls[c].input, 1)
        /\ inline_calls[c].result = << Span(<< "a" >>, {"bold", "italic"}) >>


\* The tags of the paragraph markup the PDF side hands to its library, with
\* the attribute each one turns on or off.
MarkupTags ==
    { [tag |-> << "<", "b", ">" >>,
       attr |-> "bold", on |-> TRUE],
      [tag |-> << "<", "/", "b", ">" >>,
       attr |-> "bold", on |-> FALSE],
      [tag |-> << "<", "i", ">" >>,
       attr |-> "italic", on |-> TRUE],
      [tag |-> << "<", "/", "i", ">" >>,
       attr |-> "italic", on |-> FALSE],
      [tag |-> << "<", "u", ">" >>,
       attr |-> "underline", on |-> TRUE],
      [tag |-> << "<", "/", "u", ">" >>,
       attr |-> "underline", on |-> FALSE],
      [tag |-> << "<", "s", "u", "p", "e", "r", ">" >>,
       attr |-> "superscript", on |-> TRUE],
      [tag |-> << "<", "/", "s", "u", "p", "e", "r", ">" >>,
       attr |-> "superscript", on |-> FALSE],
      [tag |-> << "<", "s", "u", "b", ">" >>,
       attr |-> "subscript", on |-> TRUE],
      [tag |-> << "<", "/", "s", "u", "b", ">" >>,
       attr |-> "subscript", on |-> FALSE],
      [tag |-> << "<", "s", "t", "r", "i", "k", "e", ">" >>,
       attr |-> "strikethrough", on |-> TRUE],
      [tag |-> << "<", "/", "s", "t", "r", "i", "k", "e", ">" >>,
       attr |-> "strikethrough", on |-> FALSE],
      [tag |-> << "<", "f", "o", "n", "t", " ", "n", "a", "m", "e", "=", "\"", "C", "o", "u", "r", "i", "e", "r", "\"", " ", "s", "i", "z", "e", "=", "\"", "9", "\"", ">" >>,
       attr |-> "code", on |-> TRUE],
      [tag |-> << "<", "/", "f", "o", "n", "t", ">" >>,
       attr |-> "code", on |-> FALSE] }

\* The characters a markup text shows, each with the attributes in force
\* where it stands: a tag shows nothing and changes the attributes.
RECURSIVE Shown(_, _)
Shown(markup, attrs) ==
    IF markup = << >> THEN << >>
    ELSE LET here == { t \in MarkupTags : StartsWith(markup, t.tag) }
         IN  IF here = { }
             THEN << [ch |-> Head(markup), attrs |-> attrs] >>
                      \o Shown(Tail(markup), attrs)
             ELSE LET t == CHOOSE t \in here : TRUE
                  IN  Shown(PyFrom(markup, Len(t.tag)),
                            IF t.on THEN attrs \cup {t.attr}
                            ELSE attrs \ {t.attr})

\* The characters a span sequence shows, each with the format of its span.
RECURSIVE SpanChars(_)
SpanChars(result) ==
    IF result = << >> THEN << >>
    ELSE [k \in 1..Len(Head(result).text) |->
              [ch |-> Head(result).text[k], attrs |-> Head(result).format]]
         \o SpanChars(Tail(result))

\* C22: for every text, the characters the PDF markup shows and the
\* formatting of each of them are the characters and formats of the spans
\* parse_inline_formatting gives the word-processor side: the same markers
\* are removed and the same characters are bold, italic, struck through,
\* superscript, subscript, underlined or code.
C22_SameInlineModel ==
    \A c \in InlineCallIds :
        \A r \in 1..Len(rl_calls) :
            Shown(rl_calls[r].markup, { }) = SpanChars(inline_calls[c].result)


(***************************************************************************)
(* export_to_docx of src/utils/export.py: the document as the sequence of  *)
(* items the function adds to it.  An item is a paragraph (with its runs,  *)
(* each a text and the formatting set on it), a table or a page break;     *)
(* elem is the position of the element it was made from, 0 for the items   *)
(* the function adds by itself.                                            *)
(***************************************************************************)

MonthNames ==
    << << "J", "a", "n", "u", "a", "r", "y" >>,
       << "F", "e", "b", "r", "u", "a", "r", "y" >>,
       << "M", "a", "r", "c", "h" >>,
       << "A", "p", "r", "i", "l" >>,
       << "M", "a", "y" >>,
       << "J", "u", "n", "e" >>,
       << "J", "u", "l", "y" >>,
       << "A", "u", "g", "u", "s", "t" >>,
       << "S", "e", "p", "t", "e", "m", "b", "e", "r" >>,
       << "O", "c", "t", "o", "b", "e", "r" >>,
       << "N", "o", "v", "e", "m", "b", "e", "r" >>,
       << "D", "e", "c", "e", "m", "b", "e", "r" >> >>

\* datetime.now().strftime('%B %d, %Y'): the day takes two digits.
FormatDate(d) ==
    MonthNames[d.month] \o << " " >>
        \o (IF d.day < 10 THEN << "0" >> ELSE << >>) \o Decimal(d.day)
        \o << ",", " " >> \o Decimal(d.year)

GENERATED_BY == << "G", "e", "n", "e", "r", "a", "t", "e", "d", " ", "b", "y", " ", "F", "o", "r", "w", "a", "r", "d", " ", "T", "h", "i", "n", "k", "i", "n", "g", " ", "-", " ", "F", "o", "r", "e", "s", "i", "g", "h", "t" >>

NoDocxTable == [headers |-> << >>, rows |-> << >>]

DocxItem(kind, level, runs, table, elem) ==
    [kind |-> kind, level |-> level, runs |-> runs, table |-> table,
     elem |-> elem]

\* Mutant of HeadingLevel: every heading is of level 1.
MutHeadingLevelOne(type) == 1

\* int(elem_type[-1]) of a heading type
HeadingLevel(type) == CHOOSE l \in 1..5 : HeadingType(l) = type

\* add_table_to_docx: nothing when there are no headers; else the table,
\* with the header texts (bold) and, for every cell of every row, the runs
\* of its text, and an empty paragraph after it.
DocxTableItems(table_data, k) ==
    IF table_data.headers = << >> THEN << >>
    ELSE << DocxItem("table", 0, << >>,
                     [headers |-> table_data.headers,
                      rows |-> [r \in 1..Len(table_data.rows) |->
                                   [c \in 1..Len(table_data.rows[r]) |->
                                        ParseInlineFormatting(
                                            table_data.rows[r][c])]]],
                     k),
            DocxItem("blank", 0, << >>, NoDocxTable, k) >>

\* The items the loop of export_to_docx adds for the k-th element.
DocxItemsOf(el, k) ==
    IF el.type = "empty"
    THEN << DocxItem("blank", 0, << >>, NoDocxTable, k) >>
    ELSE IF el.type \in { HeadingType(l) : l \in 1..5 }
    THEN << DocxItem("heading", HeadingLevel(el.type),
                     << Span(el.text, {"bold"}) >>, NoDocxTable, k) >>
    ELSE IF el.type = "paragraph"
    THEN << DocxItem("paragraph", 0, ParseInlineFormatting(el.text),
                     NoDocxTable, k) >>
    ELSE IF el.type = "table"
    THEN DocxTableItems(ParseTable(el.items), k)
    ELSE IF el.type = "bullet_list"
    THEN [n \in 1..Len(el.items) |->
              DocxItem("list_bullet", 0, ParseInlineFormatting(el.items[n]),
                       NoDocxTable, k)]
    ELSE IF el.type = "numbered_list"
    THEN [n \in 1..Len(el.items) |->
              DocxItem("list_number", 0, ParseInlineFormatting(el.items[n]),
                       NoDocxTable, k)]
    ELSE IF el.type = "blockquote"
    THEN << DocxItem("quote", 0, << Span(el.text, {"italic"}) >>,
                     NoDocxTable, k) >>
    ELSE << DocxItem("code", 0, << Span(el.text, {"code"}) >>,
                     NoDocxTable, k) >>

\* The items of the elements from the k-th on.
RECURSIVE DocxBody(_, _)
DocxBody(elements, k) ==
    IF k > Len(elements) THEN << >>
    ELSE DocxItemsOf(elements[k], k) \o DocxBody(elements, k + 1)

\* The footer run of the word-processor form.
DocxFooterText(d) == GENERATED_BY \o << "\n" >> \o FormatDate(d)

\* Mutant of DocxTail: the page break comes after the footer.
MutDocxTailBreakLast(d) ==
    << DocxItem("footer", 0, << Span(DocxFooterText(d), {"italic"}) >>,
                NoDocxTable, 0),
       DocxItem("page_break", 0, << >>, NoDocxTable, 0) >>

\* What export_to_docx adds after the loop: a page break and the footer.
DocxTail(d) ==
    << DocxItem("page_break", 0, << >>, NoDocxTable, 0),
       DocxItem("footer", 0, << Span(DocxFooterText(d), {"italic"}) >>,
                NoDocxTable, 0) >>

\* export_to_docx(content, title), run on the date d
ExportToDocx(text, title, d) ==
    << DocxItem("title", 0, << Span(title, {"bold"}) >>, NoDocxTable, 0) >>
        \o DocxBody(ParseMarkdownContent(text), 1)
        \o DocxTail(d)


(***************************************************************************)
(* export_to_pdf of src/utils/export.py: the story as the sequence of      *)
(* flowables the function appends.  A paragraph carries its markup, a      *)
(* spacer its height in level, a list the markups of its items, a table    *)
(* the markups of its cells; elem is as in the document above.             *)
(***************************************************************************)

NoPdfTable == << >>

Flowable(kind, level, markup, items, table, elem) ==
    [kind |-> kind, level |-> level, markup |-> markup, items |-> items,
     table |-> table, elem |-> elem]

BR == << "<", "b", "r", "/", ">" >>

\* create_pdf_table for headers that are not empty: the rows of cell
\* markups, the header row first.
CreatePdfTable(table_data) ==
    << [c \in 1..Len(table_data.headers) |->
            << "<", "b", ">" >> \o table_data.headers[c]
                \o << "<", "/", "b", ">" >>] >>
    \o [r \in 1..Len(table_data.rows) |->
            [c \in 1..Len(table_data.rows[r]) |->
                 ConvertInlineToReportlab(table_data.rows[r][c])]]

\* The table branch of the loop: a table and a spacer, or nothing when
\* create_pdf_table returns None.
PdfTableFlowables(table_data, k) ==
    IF table_data.headers = << >> THEN << >>
    ELSE << Flowable("table", 0, << >>, << >>, CreatePdfTable(table_data), k),
            Flowable("spacer", 12, << >>, << >>, NoPdfTable, k) >>

\* The flowables the loop of export_to_pdf appends for the k-th element.
FlowablesOf(el, k) ==
    IF el.type = "empty"
    THEN << Flowable("spacer", 6, << >>, << >>, NoPdfTable, k) >>
    ELSE IF el.type \in { HeadingType(l) : l \in 1..5 }
    THEN << Flowable("heading", HeadingLevel(el.type),
                     ConvertInlineToReportlab(el.text), << >>, NoPdfTable, k) >>
    ELSE IF el.type = "paragraph"
    THEN << Flowable("paragraph", 0, ConvertInlineToReportlab(el.text),
                     << >>, NoPdfTable, k) >>
    ELSE IF el.type = "table"
    THEN PdfTableFlowables(ParseTable(el.items), k)
    ELSE IF el.type \in {"bullet_list", "numbered_list"}
    THEN << Flowable(el.type, 0, << >>,
                     [n \in 1..Len(el.items) |->
                          ConvertInlineToReportlab(el.items[n])],
                     NoPdfTable, k),
            Flowable("spacer", 6, << >>, << >>, NoPdfTable, k) >>
    ELSE IF el.type = "blockquote"
    THEN << Flowable("quote", 0, ConvertInlineToReportlab(el.text), << >>,
                     NoPdfTable, k) >>
    ELSE << Flowable("code", 0, JoinWith(SplitOn(el.text, "\n"), BR), << >>,
                     NoPdfTable, k) >>

\* The flowables of the elements from the k-th on.
RECURSIVE PdfBody(_, _)
PdfBody(elements, k) ==
    IF k > Len(elements) THEN << >>
    ELSE FlowablesOf(elements[k], k) \o PdfBody(elements, k + 1)

\* footer_text of the PDF form
PdfFooterText(d) == GENERATED_BY \o BR \o FormatDate(d)

\* What export_to_pdf appends after the loop: a spacer and the footer.
PdfTail(d) ==
    << Flowable("spacer", 30, << >>, << >>, NoPdfTable, 0),
       Flowable("footer", 0, PdfFooterText(d), << >>, NoPdfTable, 0) >>

\* The story export_to_pdf(content, title) builds, run on the date d
ExportToPdf(text, title, d) ==
    << Flowable("title", 0, title, << >>, NoPdfTable, 0),
       Flowable("spacer", 20, << >>, << >>, NoPdfTable, 0) >>
        \o PdfBody(ParseMarkdownContent(text), 1)
        \o PdfTail(d)


(***************************************************************************)
(* The two exports as a state machine: a content, a title and the date of  *)
(* the run are given; each export is called once, in either order, and     *)
(* leaves what it built in docx_doc or pdf_story.                          *)
(***************************************************************************)

\* The markdown of the worked example: a heading, a paragraph with a bold
\* word and a table of one data row, separated by blank lines.
ScenarioText ==
    << "#", "#", " ", "T", "i", "t", "l", "e", "\n", "\n", "S", "o", "m", "e", " ", "*", "*", "b", "o", "l", "d", "*", "*", " ", "t", "e", "x", "t", ".", "\n" >>
    \o << "\n", "|", " ", "A", " ", "|", " ", "B", " ", "|", "\n", "|", "-", "-", "-", "|", "-", "-", "-", "|", "\n", "|", " ", "1", " ", "|", " ", "2", " ", "|" >>

\* Lines with inline formatting, besides the lines of MdLines.
ExportLines ==
    MdLines \cup
    { << "*", "*", "a", "*", "*", " ", "b" >>,
      << "-", " ", "*", "a", "*" >>,
      << "|", " ", "~", "a", "~", " ", "|", " ", "b", " ", "|" >> }

ExportTextsOf(n) == { JoinWith(d, << "\n" >>) : d \in [1..n -> ExportLines] }

Titles == { << "R", "e", "p", "o", "r", "t" >>, << "Q" >> }

Dates == { [year |-> 2024, month |-> 1, day |-> 5],
           [year |-> 2025, month |-> 12, day |-> 31] }

ExportInit ==
    /\ \/ \E n \in 1..MaxExportLines : md_content \in ExportTextsOf(n)
       \/ md_content = ScenarioText
    /\ md_pc = "start"
    /\ md_elements = << >>
    /\ md_tables = << >>
    /\ md_lines = << >>
    /\ md_i = 0
    /\ export_title \in Titles
    /\ today \in Dates
    /\ docx_doc = << >>
    /\ pdf_story = << >>
    /\ SessionIdle
    /\ InlineIdle
    /\ TruncIdle
    /\ PdfIdle

\* export_to_docx(content, title)
CallExportToDocx ==
    /\ docx_doc = << >>
    /\ docx_doc' = ExportToDocx(md_content, export_title, today)
    /\ UNCHANGED << export_title, today, pdf_story >>
    /\ UNCHANGED << truncVars, pdfVars, mdVars, inlineVars, sessionVars >>

\* export_to_pdf(content, title)
CallExportToPdf ==
    /\ pdf_story = << >>
    /\ pdf_story' = ExportToPdf(md_content, export_title, today)
    /\ UNCHANGED << export_title, today, docx_doc >>
    /\ UNCHANGED << truncVars, pdfVars, mdVars, inlineVars, sessionVars >>

ExportNext == CallExportToDocx \/ CallExportToPdf

ExportSpec == ExportInit /\ [][ExportNext]_vars


(***************************************************************************)
(* The claims about the two exports                                        *)
(***************************************************************************)

\* The kinds of item the exports add by themselves, around the content.
FrameKinds == {"title", "page_break", "footer"}

\* The text of the footer run of a finished document, and the footer markup
\* of a finished story.
DocxFooterOf(doc) == doc[Len(doc)].runs[1].text
PdfFooterOf(story) == story[Len(story)].markup

\* C23 as stated: both exports end with a generation footer, after the
\* content elements in parser order; the footer contains the title and the
\* generation date; in the word-processor form a page break stands
\* immediately before the footer.
C23_FooterHoldsTitleAndDate ==
    /\ docx_doc # << >> =>
          /\ docx_doc[Len(docx_doc)].kind = "footer"
          /\ docx_doc[Len(docx_doc) - 1].kind = "page_break"
          /\ PyFind(DocxFooterOf(docx_doc), export_title) # -1
          /\ PyFind(DocxFooterOf(docx_doc), FormatDate(today)) # -1
    /\ pdf_story # << >> =>
          /\ pdf_story[Len(pdf_story)].kind = "footer"
          /\ PyFind(PdfFooterOf(pdf_story), export_title) # -1
          /\ PyFind(PdfFooterOf(pdf_story), FormatDate(today)) # -1

\* C23 as the code has it: both exports begin with the title and end with
\* a generation footer that holds the fixed line "Generated by Forward
\* Thinking - Foresight", a line break and the generation date written as
\* month name, two-digit day, year; the items between them come from the
\* content elements in parser order.  In the word-processor form a page
\* break stands immediately before the footer and after the last content
\* item; in the PDF form a spacer of height 30 stands there.
C23_FooterAfterContent ==
    /\ docx_doc # << >> =>
          LET n == Len(docx_doc)
          IN  /\ n >= 3
              /\ docx_doc[1].kind = "title"
              /\ docx_doc[1].runs = << Span(export_title, {"bold"}) >>
              /\ docx_doc[n].kind = "footer"
              /\ docx_doc[n].runs =
                     << Span(GENERATED_BY \o << "\n" >> \o FormatDate(today),
                             {"italic"}) >>
              /\ docx_doc[n - 1].kind = "page_break"
              /\ \A k \in 2..(n - 2) :
                     /\ docx_doc[k].kind \notin FrameKinds
                     /\ docx_doc[k].elem
                            \in 1..Len(ParseMarkdownContent(md_content))
                     /\ k > 2 => docx_doc[k - 1].elem <= docx_doc[k].elem
    /\ pdf_story # << >> =>
          LET n == Len(pdf_story)
          IN  /\ n >= 4
              /\ pdf_story[1].kind = "title"
              /\ pdf_story[1].markup = export_title
              /\ pdf_story[n].kind = "footer"
              /\ pdf_story[n].markup =
                     GENERATED_BY \o BR \o FormatDate(today)
              /\ pdf_story[n - 1].kind = "spacer"
              /\ pdf_story[n - 1].level = 30
              /\ \A k \in 3..(n - 2) :
                     /\ pdf_story[k].kind \notin FrameKinds
                     /\ pdf_story[k].elem
                            \in 1..Len(ParseMarkdownContent(md_content))
                     /\ k > 3 => pdf_story[k - 1].elem <= pdf_story[k].elem

\* Both exports ran on a content of two elements at least, on a day whose
\* number takes one digit.
C23_Witness ==
    /\ docx_doc # << >>
    /\ pdf_story # << >>
    /\ Len(ParseMarkdownContent(md_content)) >= 2
    /\ docx_doc[Len(docx_doc) - 2].elem = 2
    /\ pdf_story[Len(pdf_story) - 2].elem = 2
    /\ today.day < 10
    /\ md_content # ScenarioText


\* An item that shows something: not an empty paragraph, not a spacer.
IsShown(item) == item.kind \notin {"blank", "spacer"}

\* C24: for the worked example, both exports produce, in this order, a
\* level-2 heading "Title", a paragraph in which exactly "bold" is bold, and
\* a table of two columns (headers A, B) and one data row (1, 2); around
\* them stand only the title, empty paragraphs or spacers, and the ending.
C24_ExportScenario ==
    md_content = ScenarioText =>
      /\ docx_doc # << >> =>
            LET shown == SelectSeq(docx_doc, IsShown)
            IN  /\ Len(shown) = 6
                /\ shown[1].kind = "title"
                /\ shown[2].kind = "heading"
                /\ shown[2].level = 2
                /\ shown[2].runs = << Span(<< "T", "i", "t", "l", "e" >>, {"bold"}) >>
                /\ shown[3].kind = "paragraph"
                /\ shown[3].runs =
                       << Span(<< "S", "o", "m", "e", " " >>, {}),
                          Span(<< "b", "o", "l", "d" >>, {"bold"}),
                          Span(<< " ", "t", "e", "x", "t", "." >>, {}) >>
                /\ shown[4].kind = "table"
                /\ shown[4].table.headers = << << "A" >>, << "B" >> >>
                /\ shown[4].table.rows =
                       << << << Span(<< "1" >>, {}) >>,
                             << Span(<< "2" >>, {}) >> >> >>
                /\ shown[5].kind = "page_break"
                /\ shown[6].kind = "footer"
      /\ pdf_story # << >> =>
            LET shown == SelectSeq(pdf_story, IsShown)
            IN  /\ Len(shown) = 5
                /\ shown[1].kind = "title"
                /\ shown[2].kind = "heading"
                /\ shown[2].level = 2
                /\ shown[2].markup = << "T", "i", "t", "l", "e" >>
                /\ shown[3].kind = "paragraph"
                /\ shown[3].markup =
                       << "S", "o", "m", "e", " ", "<", "b", ">", "b", "o", "l", "d", "<", "/", "b", ">", " ", "t", "e", "x", "t", "." >>
                /\ shown[4].kind = "table"
                /\ shown[4].table =
                       << << << "<", "b", ">", "A", "<", "/", "b", ">" >>,
                             << "<", "b", ">", "B", "<", "/", "b", ">" >> >>,
                          << << "1" >>, << "2" >> >> >>
                /\ shown[5].kind = "footer"

\* Both exports ran on the worked example.
C24_Witness ==
    /\ md_content = ScenarioText
    /\ docx_doc # << >>
    /\ pdf_story # << >>


(***************************************************************************)
(* The trimming of the two windows of truncate_content_smart, on texts     *)
(* with page tags around the four-fifths point of the head window and the  *)
(* one-fifth point of the tail window.                                     *)
(***************************************************************************)

\* n letters
Fill(n) == [k \in 1..n |-> "a"]

\* A run of i characters, a page tag, a long run of letters, a page tag, a
\* run of j characters; either run is letters only, or the first begins
\* with a page tag, or the last ends with one.
TrimTexts ==
    { lead \o Fill(i - Len(lead)) \o PAGE_TAG \o Fill(30) \o PAGE_TAG
           \o Fill(j - Len(trail)) \o trail :
        i \in 20..27, j \in 7..13,
        lead \in { << >>, PAGE_TAG }, trail \in { << >>, PAGE_TAG } }

\* Budgets whose tail window is empty, and budgets around 50.
TrimBudgets == (0..2) \cup (47..MaxTrimBudget)

TrimInit ==
    /\ content \in TrimTexts
    /\ max_chars \in TrimBudgets
    /\ calls = << >>
    /\ PdfIdle
    /\ ExportIdle
    /\ SessionIdle

TrimSpec == TrimInit /\ [][TruncNext]_vars

\* content[:beginning_chars] and content[-end_chars:] of a call
HeadWindow(c) == PyPrefix(c.input, BeginningChars(c.budget))
TailWindow(c) == PyLast(c.input, EndChars(c.budget))

\* The position of the last page tag the head window contains, and of the
\* first one the tail window contains; -1 when there is none.
LastTag(c) == PyRFind(HeadWindow(c), PAGE_TAG)
FirstTag(c) == PyFind(TailWindow(c), PAGE_TAG)

\* The returned text begins with the text h and the truncation marker.
BeginsWith(c, h) ==
    PyPrefix(c.out.text, Len(h) + Len(MARKER)) = h \o MARKER

\* The returned text ends with the truncation marker and the text t.
EndsWith(c, t) ==
    /\ Len(c.out.text) >= Len(t) + Len(MARKER)
    /\ SubSeq(c.out.text, Len(c.out.text) - Len(t) - Len(MARKER) + 1,
              Len(c.out.text)) = MARKER \o t

\* C25 as stated: when truncating, the head window is cut back to end
\* immediately before the last page tag it contains if and only if that tag
\* starts within the last 20% of the window, that is at or after four
\* fifths of its length; otherwise the window is kept whole.
C25_HeadTrimmedInLastFifth ==
    \A n \in CallIds :
        LET c == calls[n]
            w == HeadWindow(c)
            p == LastTag(c)
        IN  c.out.was_truncated =>
              IF p # -1 /\ 10 * p >= 8 * Len(w)
              THEN BeginsWith(c, PyPrefix(w, p))
              ELSE BeginsWith(c, w)

\* C25 as the code has it: when truncating, the head window is cut back to
\* end immediately before the last page tag it contains if and only if that
\* tag starts strictly after four fifths of the window; a tag that starts
\* exactly at four fifths, or before, leaves the window whole.
C25_HeadTrimmedPastFourFifths ==
    \A n \in CallIds :
        LET c == calls[n]
            w == HeadWindow(c)
            p == LastTag(c)
        IN  c.out.was_truncated =>
              IF p # -1 /\ 10 * p > 8 * Len(w)
              THEN BeginsWith(c, PyPrefix(w, p))
              ELSE BeginsWith(c, w)

\* A truncating call whose head window holds two page tags, the last one
\* strictly after four fifths of the window: the head was cut there.
C25_Witness ==
    /\ Len(calls) >= 1
    /\ calls[1].out.was_truncated
    /\ Cardinality(Occurrences(HeadWindow(calls[1]), PAGE_TAG)) = 2
    /\ 10 * LastTag(calls[1]) > 8 * Len(HeadWindow(calls[1]))
    /\ BeginsWith(calls[1], PyPrefix(HeadWindow(calls[1]), LastTag(calls[1])))

\* A truncating call whose last page tag of the head window starts exactly
\* at four fifths of the window: the head was kept whole.
C25_BoundaryCase ==
    /\ Len(calls) >= 1
    /\ calls[1].out.was_truncated
    /\ LastTag(calls[1]) # -1
    /\ 10 * LastTag(calls[1]) = 8 * Len(HeadWindow(calls[1]))
    /\ BeginsWith(calls[1], HeadWindow(calls[1]))

\* C26: when truncating, the tail window is cut forward to begin at the
\* first page tag it contains if and only if that tag starts within the
\* first 20% of the window's size of 0.4 * budget; the tail then begins with
\* the page tag; otherwise the window is kept whole.
C26_TailTrimmedInFirstFifth ==
    \A n \in CallIds :
        LET c == calls[n]
            w == TailWindow(c)
            p == FirstTag(c)
        IN  c.out.was_truncated =>
              IF p # -1 /\ 10 * p < 2 * EndChars(c.budget)
              THEN /\ EndsWith(c, PyFrom(w, p))
                   /\ PyPrefix(PyFrom(w, p), Len(PAGE_TAG)) = PAGE_TAG
              ELSE EndsWith(c, w)

\* A truncating call whose tail window holds two page tags, the first one
\* after the start of the window and within its first fifth: the tail was
\* cut there.
C26_Witness ==
    /\ Len(calls) >= 1
    /\ calls[1].out.was_truncated
    /\ Cardinality(Occurrences(TailWindow(calls[1]), PAGE_TAG)) = 2
    /\ FirstTag(calls[1]) > 0
    /\ 10 * FirstTag(calls[1]) < 2 * EndChars(calls[1].budget)
    /\ EndsWith(calls[1], PyFrom(TailWindow(calls[1]), FirstTag(calls[1])))

\* A truncating call whose first page tag of the tail window starts exactly
\* at one fifth of the window: the tail was kept whole.
C26_BoundaryCase ==
    /\ Len(calls) >= 1
    /\ calls[1].out.was_truncated
    /\ FirstTag(calls[1]) > 0
    /\ 10 * FirstTag(calls[1]) = 2 * EndChars(calls[1].budget)
    /\ EndsWith(calls[1], TailWindow(calls[1]))


(***************************************************************************)
(* The paragraph rule and the main loop of parse_markdown_content          *)
(***************************************************************************)

\* The line at 0-based index q would by itself start a heading, a table, a
\* code block, a blockquote, a bullet list or a numbered list.
IsBlockStart(lines, q) ==
    \/ HeaderMatch(lines[q + 1]).ok
    \/ IsTableStart(lines, q)
    \/ IsFence(lines[q + 1])
    \/ IsQuote(lines[q + 1])
    \/ IsBullet(lines[q + 1])
    \/ IsNumbered(lines[q + 1])

\* C27: a paragraph element absorbs a following line only if that line is
\* not blank and would not by itself start a heading, table, bullet list,
\* numbered list, blockquote or fence: no line after the first of a
\* paragraph is blank or a block start.
C27_ParagraphStopsAtBlockStart ==
    md_pc # "start" =>
        \A k \in ElementIds :
            md_elements[k].type = "paragraph" =>
                \A q \in (md_elements[k].start + 1)..(md_elements[k].stop - 1) :
                    /\ Strip(MdSourceLines[q + 1]) # << >>
                    /\ ~IsBlockStart(MdSourceLines, q)

\* A numbered line that does not begin with "1." was joined into the
\* paragraph before it.
C27_AbsorbedNumberedLine ==
    /\ md_pc # "start"
    /\ Len(MdSourceLines) = 2
    /\ IsNumbered(MdSourceLines[2])
    /\ Len(md_elements) = 1
    /\ md_elements[1].type = "paragraph"
    /\ md_elements[1].stop = 2


\* C29: a table element holds the header line and the separator line the
\* look-ahead matched, two lines at least, and parse_table returns headers
\* for it, so the table is not dropped by the exports.
C29_TableKeepsHeaderAndSeparator ==
    md_pc = "tables" =>
        \A k \in TableIds :
            /\ Len(md_elements[k].items) >= 2
            /\ SeparatorMatch(md_elements[k].items[2])
            /\ md_tables[k].headers # << >>

\* A header line followed by a separator line without a pipe became a table
\* element of one line, for which parse_table returned no headers.
C29_OneLineTable ==
    /\ md_pc = "tables"
    /\ md_elements # << >>
    /\ md_elements[1].type = "table"
    /\ Len(md_elements[1].items) = 1
    /\ md_tables[1] = NoTable


(***************************************************************************)
(* The main loop of parse_markdown_content, one iteration at a time:       *)
(* md_lines and md_i are its locals lines and i.  The program is           *)
(* sequential: a step that can be taken is taken.                          *)
(***************************************************************************)

\* Mutant of NextIndex: a blank line leaves the index where it is.
MutNextIndexStaysOnBlank(lines, i) ==
    IF Strip(lines[i + 1]) = << >> THEN i ELSE ElementAt(lines, i).stop

\* The value of i after the iteration that begins at index i.
NextIndex(lines, i) == ElementAt(lines, i).stop

\* Before the call: no content has been handed over yet.
LoopInit ==
    /\ md_content = << >>
    /\ md_pc = "call"
    /\ md_elements = << >>
    /\ md_tables = << >>
    /\ md_lines = << >>
    /\ md_i = 0
    /\ InlineIdle
    /\ RenderIdle
    /\ SessionIdle
    /\ TruncIdle
    /\ PdfIdle

\* The call: elements = [], lines = content.split('\n'), i = 0.
LoopEnter ==
    /\ md_pc = "call"
    /\ \E n \in 1..MaxLoopLines : md_content' \in MdTextsOf(n)
    /\ md_lines' = SplitOn(md_content', "\n")
    /\ md_i' = 0
    /\ md_pc' = "start"
    /\ UNCHANGED << md_elements, md_tables >>
    /\ UNCHANGED << truncVars, pdfVars, inlineVars, renderVars, sessionVars >>

\* One iteration of "while i < len(lines)".
LoopStep ==
    /\ md_pc = "start"
    /\ md_i < Len(md_lines)
    /\ md_elements' = Append(md_elements, ElementAt(md_lines, md_i))
    /\ md_i' = NextIndex(md_lines, md_i)
    /\ UNCHANGED << md_content, md_pc, md_tables, md_lines >>
    /\ UNCHANGED << truncVars, pdfVars, inlineVars, renderVars, sessionVars >>

\* The loop condition fails: return elements.
LoopExit ==
    /\ md_pc = "start"
    /\ md_i >= Len(md_lines)
    /\ md_pc' = "parsed"
    /\ UNCHANGED << md_content, md_elements, md_tables, md_lines, md_i >>
    /\ UNCHANGED << truncVars, pdfVars, inlineVars, renderVars, sessionVars >>

LoopNext == LoopEnter \/ LoopStep \/ LoopExit

LoopSpec == LoopInit /\ [][LoopNext]_vars

LoopFairSpec == LoopInit /\ [][LoopNext]_vars /\ WF_vars(LoopNext)

\* The loop, run to its end, returns what ParseMarkdownContent gives.
LoopAgreesWithParser ==
    md_pc = "parsed" => md_elements = ParseMarkdownContent(md_content)

\* The lines the k-th element appended so far has consumed, as 0-based
\* indices: those from the element's start up to where it stopped.
LinesOf(k) ==
    { q \in 0..(Len(md_lines) - 1) :
        md_elements[k].start <= q /\ q < md_elements[k].stop }

\* C28: parse_markdown_content terminates on every input: every iteration
\* of the main loop moves the line index forward by one at least, the
\* index never moves backward, every line below the index was consumed by
\* exactly one element (a fence line by its code element), the elements
\* are never more than the lines, and the function returns in the end.
C28_LoopTerminates ==
    /\ [][md_i' >= md_i /\ (LoopStep => md_i' > md_i)]_vars
    /\ [](/\ \A q \in 0..(Min(md_i, Len(md_lines)) - 1) :
                 Cardinality({ k \in ElementIds : q \in LinesOf(k) }) = 1
           /\ \A k \in ElementIds : LinesOf(k) # {}
           /\ Len(md_elements) <= Len(md_lines))
    /\ <>(md_pc = "parsed")
    /\ [](md_pc = "parsed" => md_i >= Len(md_lines))

\* The loop returned after one iteration that consumed both lines of a
\* text of two lines.
C28_Witness ==
    /\ md_pc = "parsed"
    /\ Len(md_lines) = 2
    /\ Len(md_elements) = 1
    /\ md_i >= 2


(***************************************************************************)
(* The session workflow of src/app.py.  Streamlit runs the script from the *)
(* top on every interaction: the run renders the workflow tracker from the *)
(* session state as it stands, then handles the widget that was used; a    *)
(* handler that ends in st.rerun() starts a new run at once.  session      *)
(* holds the fields of st.session_state the workflow reads ("None" for     *)
(* None, the set of group ids for the keys of generated_appendices);       *)
(* rendered holds the step the tracker showed in the last run and the      *)
(* value api_key_valid had then.                                           *)
(***************************************************************************)

\* The group ids of a planning table.
Groups == { "Group A", "Group B", "Group C" }

\* Python's truth test of a stored value, as in `if st.session_state.x:`.
\* None, {} and [] are false; every other value used here is true.
Truthy(v) == v \notin { "None", "{}", "[]" }

\* The value is a dict, so that planning_data.get(...) does not raise.
IsDict(v) == v \in { "{}", "no_chapters", "demo", "analysis", "updated" }

\* The group_id values of planning_data.get('chapters', []): the demo table
\* has the single group 'Group A', a table of the language model has the
\* groups of Groups, a dict without 'chapters' has none.
ChaptersOf(v) ==
    CASE v = "demo" -> { "Group A" }
      [] v \in { "analysis", "updated" } -> Groups
      [] OTHER -> {}

\* What parse_json_response can return without raising: json.loads of the
\* answer, which is whatever JSON value the language model wrote: null,
\* {}, [], a non-empty list, a dict without 'chapters', or the table.
JsonAnswers(table) == { "None", "{}", "[]", "[1]", "no_chapters", table }

\* current_step of render_workflow_tracker
CurrentStep(st) ==
    IF Truthy(st.planning_data) THEN 4
    ELSE IF Truthy(st.book_content) THEN 3
    ELSE IF st.api_key_valid THEN 2
    ELSE 1

\* What a run of the script renders from the session state st.
Render(st) ==
    [current_step |-> CurrentStep(st), api_key_valid |-> st.api_key_valid]

\* The first run: the defaults, with the key valid already when developer
\* mode loaded one from the environment.
SessionInit ==
    /\ \E valid \in BOOLEAN :
          /\ session = [api_key_valid |-> valid, demo_mode |-> FALSE,
                        book_content |-> "None", extraction_info |-> "None",
                        planning_data |-> "None",
                        generated_appendices |-> {}]
          /\ rendered = Render(session)
    /\ TruncIdle
    /\ PdfIdle
    /\ MdIdle
    /\ InlineIdle
    /\ RenderIdle

\* A handler that ends in st.rerun(): the new run renders the new state.
Rerun(st) ==
    /\ session' = st
    /\ rendered' = Render(st)
    /\ UNCHANGED << truncVars, pdfVars, mdVars, inlineVars, renderVars >>

\* A handler that does not rerun: the run that handled it rendered the
\* state as it was before.
NoRerun(st) ==
    /\ session' = st
    /\ rendered' = Render(session)
    /\ UNCHANGED << truncVars, pdfVars, mdVars, inlineVars, renderVars >>

\* "Validate Key": test_api_key succeeds or fails.
ValidateKey ==
    \E success \in BOOLEAN :
        IF success
        THEN Rerun([session EXCEPT !.api_key_valid = TRUE])
        ELSE NoRerun([session EXCEPT !.api_key_valid = FALSE])

\* "Try Demo Mode": load_demo_data.
EnterDemo ==
    /\ ~session.demo_mode
    /\ Rerun([session EXCEPT !.demo_mode = TRUE,
                             !.book_content = "demo",
                             !.extraction_info = "demo",
                             !.planning_data = "demo"])

\* "Exit Demo Mode"
ExitDemo ==
    /\ session.demo_mode
    /\ Rerun([session EXCEPT !.demo_mode = FALSE,
                             !.book_content = "None",
                             !.extraction_info = "None",
                             !.planning_data = "None",
                             !.generated_appendices = {}])

\* "Extract Book Content", on the main page: extract_with_info returns, or
\* raises and leaves the state as it was.
Extract ==
    /\ session.api_key_valid
    /\ \E ok \in BOOLEAN :
          NoRerun(IF ok
                  THEN [session EXCEPT !.book_content = "book",
                                       !.extraction_info = "book"]
                  ELSE session)

\* "Analyze Book & Create Planning Table": whatever parse_json_response
\* returns is stored, a table or not; when call_gemini or the parsing
\* raises, the state stays as it was.
Analyze ==
    /\ session.api_key_valid
    /\ Truthy(session.book_content)
    /\ \/ \E answer \in JsonAnswers("analysis") :
             NoRerun([session EXCEPT !.planning_data = answer])
       \/ NoRerun(session)

\* "Apply Changes", in the review section, which is drawn when
\* planning_data is true and is a dict (planning_data.get at its top):
\* whatever parse_json_response returns is stored and the script reruns,
\* or the call raises.
ApplyChanges ==
    /\ session.api_key_valid
    /\ Truthy(session.planning_data)
    /\ IsDict(session.planning_data)
    /\ \/ \E answer \in JsonAnswers("updated") :
             Rerun([session EXCEPT !.planning_data = answer])
       \/ NoRerun(session)

\* "Generate Appendix" for the selected group of the planning table: the
\* answer is stored under the group, or call_gemini raises and nothing is
\* stored. The section needs a group to select.
Generate ==
    /\ session.api_key_valid
    /\ Truthy(session.planning_data)
    /\ \E g \in ChaptersOf(session.planning_data) :
          \/ NoRerun([session EXCEPT !.generated_appendices = @ \cup {g}])
          \/ NoRerun(session)

\* "Regenerate Appendix", shown when the selected group has a stored
\* appendix: the appendix is deleted.
Regenerate ==
    /\ session.api_key_valid
    /\ Truthy(session.planning_data)
    /\ \E g \in ChaptersOf(session.planning_data)
                   \cap session.generated_appendices :
          Rerun([session EXCEPT !.generated_appendices = @ \ {g}])

SessionNext ==
    \/ ValidateKey
    \/ EnterDemo
    \/ ExitDemo
    \/ Extract
    \/ Analyze
    \/ ApplyChanges
    \/ Generate
    \/ Regenerate

SessionSpec == SessionInit /\ [][SessionNext]_vars

\* C30: after any sequence of UI actions the tracker shows a step beyond 1
\* (API Setup) only in a run in which api_key_valid is true, so that the
\* step shown as current is one whose main-page content is reachable; and
\* leaving demo mode clears book_content, extraction_info, planning_data
\* and generated_appendices and leaves api_key_valid unchanged.
C30_TrackerWithinReach ==
    /\ [](rendered.current_step > 1 => rendered.api_key_valid)
    /\ [][ExitDemo =>
            /\ session'.book_content = "None"
            /\ session'.extraction_info = "None"
            /\ session'.planning_data = "None"
            /\ session'.generated_appendices = {}
            /\ session'.api_key_valid = session.api_key_valid]_vars

\* Demo mode was entered without a valid key: the tracker shows step 4.
C30_DemoWithoutKey ==
    /\ session.demo_mode
    /\ ~session.api_key_valid
    /\ rendered = [current_step |-> 4, api_key_valid |-> FALSE]

====
